---- MODULE Spec2Model ----
(***************************************************************************)
(* llmshell: the command-safety analyzer (llmshell/safety.py) and the      *)
(* confirmation / execution flow of the shell session (llmshell/core.py).  *)
(*                                                                         *)
(* A string is a sequence of one-character strings, so that lower-casing,  *)
(* stripping, regular-expression search and shell tokenization are         *)
(* computed, character by character, as the Python code computes them.     *)
(***************************************************************************)
EXTENDS Integers, Sequences, FiniteSets, TLC

(***************************************************************************)
(* Characters and elementary string functions.                             *)
(***************************************************************************)
UpperChars == <<"A", "B", "C", "D", "E", "F", "G", "H", "I", "J", "K", "L", "M", "N", "O", "P", "Q", "R", "S", "T", "U", "V", "W", "X", "Y", "Z">>
LowerChars == <<"a", "b", "c", "d", "e", "f", "g", "h", "i", "j", "k", "l", "m", "n", "o", "p", "q", "r", "s", "t", "u", "v", "w", "x", "y", "z">>
DigitChars == <<"0", "1", "2", "3", "4", "5", "6", "7", "8", "9">>

Range(s) == {s[i] : i \in 1..Len(s)}

\* regular-expression \s and str.strip(): ASCII white space
WS == {" ", "\t", "\n", "\r"}
\* regular-expression \w
WordChars == Range(UpperChars) \cup Range(LowerChars) \cup Range(DigitChars) \cup {"_"}

\* str.lower(), one character
LowerChar(c) ==
  IF \E i \in 1..Len(UpperChars) : UpperChars[i] = c
  THEN LowerChars[CHOOSE i \in 1..Len(UpperChars) : UpperChars[i] = c]
  ELSE c

\* str.lower()
Lower(s) == [i \in 1..Len(s) |-> LowerChar(s[i])]

\* a string handed on with its blanks
Unstripped(s) == s

\* str.strip()
Strip(s) ==
  IF \A i \in 1..Len(s) : s[i] \in WS THEN <<>>
  ELSE LET a == CHOOSE i \in 1..Len(s) : s[i] \notin WS /\ \A j \in 1..(i-1) : s[j] \in WS
           b == CHOOSE i \in 1..Len(s) : s[i] \notin WS /\ \A j \in (i+1)..Len(s) : s[j] \in WS
       IN SubSeq(s, a, b)

\* str.startswith(prefix)
StartsWith(s, prefix) ==
  Len(prefix) <= Len(s) /\ SubSeq(s, 1, Len(prefix)) = prefix

\* str.endswith(suffix)
EndsWith(s, suffix) ==
  Len(suffix) <= Len(s) /\ SubSeq(s, Len(s) - Len(suffix) + 1, Len(s)) = suffix

\* the Python operator  sub in s
Contains(s, sub) ==
  \E p \in 0..(Len(s) - Len(sub)) : SubSeq(s, p + 1, p + Len(sub)) = sub

(***************************************************************************)
(* Regular expressions.  A pattern is a sequence of items; an item is a    *)
(* literal, an alternation of literals, or a character class with a        *)
(* quantifier ("1", "+" or "*").  A class is a set of characters, taken    *)
(* complemented when neg is TRUE ("." is the complement of {newline}).     *)
(* Positions count the characters consumed so far.                         *)
(***************************************************************************)
Lit(s) == [k |-> "lit", alts |-> <<s>>, set |-> {}, neg |-> FALSE, q |-> "1"]
Alt(ss) == [k |-> "alt", alts |-> ss, set |-> {}, neg |-> FALSE, q |-> "1"]
Cls(S, q) == [k |-> "cls", alts |-> <<>>, set |-> S, neg |-> FALSE, q |-> q]
NotCls(S, q) == [k |-> "cls", alts |-> <<>>, set |-> S, neg |-> TRUE, q |-> q]
Spaces == Cls(WS, "+")
OptSpaces == Cls(WS, "*")
AnyStar == NotCls({"\n"}, "*")

InClass(item, c) == IF item.neg THEN c \notin item.set ELSE c \in item.set

\* the positions reached from position p by one item
StepFrom(item, p, s) ==
  IF item.k = "cls"
  THEN LET lo == IF item.q = "1" \/ item.q = "+" THEN p + 1 ELSE p
           hi == IF item.q = "1" THEN p + 1 ELSE Len(s)
       IN {e \in lo..hi : e <= Len(s) /\ \A i \in (p+1)..e : InClass(item, s[i])}
  ELSE {p + Len(item.alts[a]) : a \in
          {a \in 1..Len(item.alts) :
              /\ p + Len(item.alts[a]) <= Len(s)
              /\ SubSeq(s, p + 1, p + Len(item.alts[a])) = item.alts[a]}}

RECURSIVE MatchEnds(_, _, _, _)
\* the positions reached from the set P of positions by the items i.. of pat
MatchEnds(pat, i, P, s) ==
  IF i > Len(pat) \/ P = {} THEN P
  ELSE MatchEnds(pat, i + 1, UNION {StepFrom(pat[i], p, s) : p \in P}, s)

\* re.search(pattern, s) is not None
Search(pat, s) == MatchEnds(pat, 1, 0..Len(s), s) # {}

(***************************************************************************)
(* DangerLevel and CommandRisk.                                            *)
(***************************************************************************)
SAFE == 0
LOW == 1
MEDIUM == 2
HIGH == 3
CRITICAL == 4
DangerLevel == {SAFE, LOW, MEDIUM, HIGH, CRITICAL}

\* CommandRisk(level, reasons, suggestions); the suggestions of the final
\* verdict come from list(set(...)), whose order is unspecified: the passes
\* keep them as a sequence, the verdict as a set.
CommandRisk(level, reasons, suggestions) ==
  [level |-> level, reasons |-> reasons, suggestions |-> suggestions]

\* a property that holds from HIGH on
is_dangerous_high(risk) == risk.level >= HIGH

is_dangerous(risk) == risk.level >= MEDIUM
requires_confirmation(risk) == risk.level >= LOW

(***************************************************************************)
(* The rule tables of SafetyAnalyzer.setup_rules, in table order.          *)
(***************************************************************************)
Rule(pat, reason) == [pat |-> pat, reason |-> reason]
DevDisk == <<Lit(<<"/", "d", "e", "v", "/">>), Cls({"s", "h"}, "1"), Lit(<<"d">>), Cls(Range(LowerChars), "1")>>
OctalDigit == Cls({"0", "1", "2", "3", "4", "5", "6", "7"}, "1")
PipeToBashSh == <<AnyStar, Lit(<<"|">>), OptSpaces, Alt(<<<<"b", "a", "s", "h">>, <<"s", "h">>>>)>>
ConfExt == <<Lit(<<".">>), Alt(<<<<"c", "o", "n", "f">>, <<"c", "f", "g">>, <<"i", "n", "i">>>>)>>

critical_patterns == <<
  Rule(<<Lit(<<"r", "m">>), Spaces, Lit(<<"-", "r", "f">>), Spaces, Lit(<<"/">>)>>,
       "Attempting to delete root filesystem"),
  Rule(<<Lit(<<":", "(", ")", "{">>), OptSpaces, Lit(<<":", "|", ":", "&">>), OptSpaces, Lit(<<"}", ";", ":">>)>>,
       "Fork bomb attempt"),
  Rule(<<Lit(<<"d", "d">>), Spaces, Lit(<<"i", "f", "=", "/", "d", "e", "v", "/">>), Alt(<<<<"z", "e", "r", "o">>, <<"r", "a", "n", "d", "o", "m">>>>), Spaces,
         Lit(<<"o", "f", "=">>)>> \o DevDisk,
       "Attempting to overwrite disk"),
  Rule(<<Lit(<<"m", "k", "f", "s", ".">>), Cls(WordChars, "+"), Spaces>> \o DevDisk,
       "Attempting to format disk"),
  Rule(<<Lit(<<"r", "m">>), Spaces, Lit(<<"-", "r", "f">>), Spaces, Lit(<<"*">>)>>,
       "Attempting to delete all files recursively"),
  Rule(<<Lit(<<"e", "c", "h", "o">>), Spaces, AnyStar, Lit(<<">">>), OptSpaces, Lit(<<"/", "e", "t", "c", "/">>),
         Alt(<<<<"p", "a", "s", "s", "w", "d">>, <<"s", "h", "a", "d", "o", "w">>, <<"s", "u", "d", "o", "e", "r", "s">>>>)>>,
       "Attempting to modify critical system files") >>

high_patterns == <<
  Rule(<<Lit(<<"s", "u", "d", "o">>), Spaces, Lit(<<"r", "m">>), Spaces, Lit(<<"-", "r", "f">>)>>,
       "Recursive deletion with sudo privileges"),
  Rule(<<Lit(<<"c", "h", "m", "o", "d">>), Spaces, Lit(<<"-", "R">>), Spaces, Lit(<<"7", "7", "7">>), Spaces, Lit(<<"/">>)>>,
       "Setting dangerous permissions on root"),
  Rule(<<Lit(<<"c", "h", "o", "w", "n">>), Spaces, Lit(<<"-", "R">>), Spaces, AnyStar, Lit(<<":", "/">>)>>,
       "Changing ownership of system directories"),
  Rule(<<Lit(<<"k", "i", "l", "l", "a", "l", "l">>), Spaces, Lit(<<"-", "9">>), Spaces,
         Alt(<<<<"i", "n", "i", "t">>, <<"s", "y", "s", "t", "e", "m", "d">>, <<"k", "e", "r", "n", "e", "l">>>>)>>,
       "Attempting to kill critical system processes"),
  Rule(<<Alt(<<<<"r", "e", "b", "o", "o", "t">>, <<"s", "h", "u", "t", "d", "o", "w", "n">>, <<"h", "a", "l", "t">>>>), Spaces, Alt(<<<<"-", "f">>, <<"-", "-", "f", "o", "r", "c", "e">>>>)>>,
       "Forced system shutdown/reboot"),
  Rule(<<Lit(<<"i", "p", "t", "a", "b", "l", "e", "s">>), Spaces, Lit(<<"-", "F">>)>>,
       "Flushing firewall rules"),
  Rule(<<Lit(<<"h", "i", "s", "t", "o", "r", "y">>), Spaces, Lit(<<"-", "c">>)>>,
       "Clearing command history"),
  Rule(<<Lit(<<"s", "h", "r", "e", "d">>), Spaces, AnyStar>>,
       "Securely deleting files") >>

medium_patterns == <<
  Rule(<<Lit(<<"r", "m">>), Spaces, Lit(<<"-", "r", "f">>), Spaces, NotCls({"/"} \cup WS, "1")>>,
       "Recursive deletion"),
  Rule(<<Lit(<<"m", "v">>), Spaces, AnyStar, Spaces, Lit(<<"/", "d", "e", "v", "/", "n", "u", "l", "l">>)>>,
       "Moving files to null device"),
  Rule(<<Lit(<<">">>), OptSpaces, Lit(<<"/", "e", "t", "c", "/">>)>>,
       "Redirecting output to system config files"),
  Rule(<<Lit(<<"c", "h", "m", "o", "d">>), Spaces, OctalDigit, OctalDigit, OctalDigit, Spaces, AnyStar,
         Lit(<<".">>), Alt(<<<<"s", "h">>, <<"p", "y">>, <<"p", "l">>, <<"r", "b">>>>)>>,
       "Changing executable permissions"),
  Rule(<<Lit(<<"f", "i", "n", "d">>), Spaces, AnyStar, Lit(<<"-", "e", "x", "e", "c">>), Spaces, Lit(<<"r", "m">>)>>,
       "Finding and deleting files"),
  Rule(<<Lit(<<"t", "a", "r">>), Spaces, AnyStar, Lit(<<"-", "-", "o", "v", "e", "r", "w", "r", "i", "t", "e">>)>>,
       "Overwriting files during extraction"),
  Rule(<<Lit(<<"w", "g", "e", "t">>), Spaces>> \o PipeToBashSh,
       "Downloading and executing remote scripts"),
  Rule(<<Lit(<<"c", "u", "r", "l">>), Spaces>> \o PipeToBashSh,
       "Downloading and executing remote scripts") >>

low_patterns == <<
  Rule(<<Lit(<<"r", "m">>), Spaces, NotCls({"-"}, "1")>>,
       "Deleting files"),
  Rule(<<Lit(<<"c", "p">>), Spaces, AnyStar, Spaces, AnyStar>> \o ConfExt,
       "Copying configuration files"),
  Rule(<<Lit(<<"m", "v">>), Spaces, AnyStar>> \o ConfExt,
       "Moving configuration files"),
  Rule(<<Lit(<<"n", "a", "n", "o">>), Spaces, Lit(<<"/", "e", "t", "c", "/">>)>>,
       "Editing system configuration"),
  Rule(<<Lit(<<"v", "i">>), Spaces, Lit(<<"/", "e", "t", "c", "/">>)>>,
       "Editing system configuration"),
  Rule(<<Lit(<<"c", "h", "m", "o", "d">>), Spaces, Lit(<<"+", "x">>)>>,
       "Making files executable"),
  Rule(<<Lit(<<"s", "u", "d", "o">>), Spaces, NotCls({"r", "m"}, "1")>>,
       "Running command with sudo privileges") >>

safe_prefixes == {
  <<"l", "s">>, <<"c", "a", "t">>, <<"l", "e", "s", "s">>, <<"m", "o", "r", "e">>, <<"h", "e", "a", "d">>, <<"t", "a", "i", "l">>, <<"g", "r", "e", "p">>, <<"f", "i", "n", "d">>, <<"l", "o", "c", "a", "t", "e">>,
  <<"p", "s">>, <<"t", "o", "p">>, <<"h", "t", "o", "p">>, <<"d", "f">>, <<"d", "u">>, <<"f", "r", "e", "e">>, <<"u", "p", "t", "i", "m", "e">>, <<"w", "h", "o", "a", "m", "i">>, <<"p", "w", "d">>,
  <<"d", "a", "t", "e">>, <<"c", "a", "l">>, <<"h", "i", "s", "t", "o", "r", "y">>, <<"m", "a", "n">>, <<"i", "n", "f", "o">>, <<"w", "h", "i", "c", "h">>, <<"w", "h", "e", "r", "e", "i", "s">>, <<"t", "y", "p", "e">>,
  <<"e", "c", "h", "o">>, <<"p", "r", "i", "n", "t", "f">>, <<"w", "c">>, <<"s", "o", "r", "t">>, <<"u", "n", "i", "q">>, <<"c", "u", "t">>, <<"a", "w", "k">>, <<"s", "e", "d">> }

\* the executable's name, for the reason text, next to its characters
dangerous_executables == {
  [chars |-> <<"f", "d", "i", "s", "k">>, name |-> "fdisk"], [chars |-> <<"p", "a", "r", "t", "e", "d">>, name |-> "parted"],
  [chars |-> <<"g", "p", "a", "r", "t", "e", "d">>, name |-> "gparted"], [chars |-> <<"m", "k", "f", "s">>, name |-> "mkfs"],
  [chars |-> <<"f", "s", "c", "k">>, name |-> "fsck"], [chars |-> <<"m", "o", "u", "n", "t">>, name |-> "mount"],
  [chars |-> <<"u", "m", "o", "u", "n", "t">>, name |-> "umount"], [chars |-> <<"i", "p", "t", "a", "b", "l", "e", "s">>, name |-> "iptables"],
  [chars |-> <<"u", "f", "w">>, name |-> "ufw"], [chars |-> <<"f", "i", "r", "e", "w", "a", "l", "l", "-", "c", "m", "d">>, name |-> "firewall-cmd"],
  [chars |-> <<"s", "y", "s", "t", "e", "m", "c", "t", "l">>, name |-> "systemctl"], [chars |-> <<"s", "e", "r", "v", "i", "c", "e">>, name |-> "service"] }

\* protected_paths is a Python set; the order below is the order of the
\* source text.  No two of its members other than "/" are prefixes of one
\* another, so the order of iteration does not show in any result.
protected_paths == <<
  [chars |-> <<"/">>, name |-> "/"], [chars |-> <<"/", "b", "o", "o", "t">>, name |-> "/boot"],
  [chars |-> <<"/", "e", "t", "c">>, name |-> "/etc"], [chars |-> <<"/", "u", "s", "r">>, name |-> "/usr"],
  [chars |-> <<"/", "v", "a", "r">>, name |-> "/var"], [chars |-> <<"/", "s", "y", "s">>, name |-> "/sys"],
  [chars |-> <<"/", "p", "r", "o", "c">>, name |-> "/proc"], [chars |-> <<"/", "d", "e", "v", "/", "s", "d", "a">>, name |-> "/dev/sda"],
  [chars |-> <<"/", "d", "e", "v", "/", "s", "d", "b">>, name |-> "/dev/sdb"], [chars |-> <<"/", "d", "e", "v", "/", "n", "v", "m", "e">>, name |-> "/dev/nvme"],
  [chars |-> <<"/", "d", "e", "v", "/", "h", "d">>, name |-> "/dev/hd"] >>

(***************************************************************************)
(* shlex.split(command): POSIX mode, whitespace_split, no comment          *)
(* characters.  The scanner state is " " (between tokens), "a" (in a       *)
(* word), a quote character (inside quotes) or the escape character.       *)
(* The result is [err, toks, msg]; err stands for the ValueError raised at *)
(* the end of the input inside quotes or after an escape character, msg    *)
(* for its message.                                                        *)
(***************************************************************************)
ShlexWhitespace == {" ", "\t", "\r", "\n"}
ShlexQuotes == {"'", "\""}
ShlexEscape == "\\"

Emit(toks, tok, quoted) == IF tok # <<>> \/ quoted THEN Append(toks, tok) ELSE toks

RECURSIVE ShlexScan(_, _, _, _, _, _, _)
ShlexScan(s, i, st, es, tok, quoted, toks) ==
  IF i > Len(s)
  THEN IF st \in ShlexQuotes
         THEN [err |-> TRUE, toks |-> toks, msg |-> <<"N", "o", " ", "c", "l", "o", "s", "i", "n", "g", " ", "q", "u", "o", "t", "a", "t", "i", "o", "n">>]
       ELSE IF st = ShlexEscape
         THEN [err |-> TRUE, toks |-> toks, msg |-> <<"N", "o", " ", "e", "s", "c", "a", "p", "e", "d", " ", "c", "h", "a", "r", "a", "c", "t", "e", "r">>]
       ELSE [err |-> FALSE, toks |-> Emit(toks, tok, quoted), msg |-> <<>>]
  ELSE LET c == s[i] IN
    IF st = " " THEN
      IF c \in ShlexWhitespace THEN ShlexScan(s, i + 1, " ", es, tok, quoted, toks)
      ELSE IF c = ShlexEscape THEN ShlexScan(s, i + 1, c, "a", tok, quoted, toks)
      ELSE IF c \in ShlexQuotes THEN ShlexScan(s, i + 1, c, es, tok, quoted, toks)
      ELSE ShlexScan(s, i + 1, "a", es, <<c>>, quoted, toks)
    ELSE IF st \in ShlexQuotes THEN
      IF c = st THEN ShlexScan(s, i + 1, "a", es, tok, TRUE, toks)
      ELSE IF c = ShlexEscape /\ st = "\"" THEN ShlexScan(s, i + 1, c, st, tok, TRUE, toks)
      ELSE ShlexScan(s, i + 1, st, es, Append(tok, c), TRUE, toks)
    ELSE IF st = ShlexEscape THEN
      LET kept == IF es \in ShlexQuotes /\ c # st /\ c # es THEN Append(tok, st) ELSE tok
      IN ShlexScan(s, i + 1, es, es, Append(kept, c), quoted, toks)
    ELSE \* st = "a"
      IF c \in ShlexWhitespace
        THEN ShlexScan(s, i + 1, " ", " ", <<>>, FALSE, Emit(toks, tok, quoted))
      ELSE IF c \in ShlexQuotes THEN ShlexScan(s, i + 1, c, es, tok, quoted, toks)
      ELSE IF c = ShlexEscape THEN ShlexScan(s, i + 1, c, "a", tok, quoted, toks)
      ELSE ShlexScan(s, i + 1, "a", es, Append(tok, c), quoted, toks)

\* a tokenizer that loses the tokens
ShlexSplitNothing(s) == [err |-> FALSE, toks |-> <<>>, msg |-> <<>>]

\* a tokenizer that accepts an unbalanced quote
ShlexSplitLenient(s) == [ShlexScan(s, 1, " ", " ", <<>>, FALSE, <<>>) EXCEPT !.err = FALSE]

ShlexSplit(s) == ShlexScan(s, 1, " ", " ", <<>>, FALSE, <<>>)

\* parts[0].split("/")[-1]
Basename(t) ==
  IF \E i \in 1..Len(t) : t[i] = "/"
  THEN LET k == CHOOSE i \in 1..Len(t) : t[i] = "/" /\ \A j \in (i+1)..Len(t) : t[j] # "/"
       IN SubSeq(t, k + 1, Len(t))
  ELSE t

(***************************************************************************)
(* str(Path(cwd)) for a POSIX path: empty and "." components are dropped,  *)
(* a run of leading slashes is one root (two slashes exactly stay two),    *)
(* ".." is kept, and the empty path is ".".                                *)
(***************************************************************************)
RECURSIVE PathParts(_, _, _, _)
PathParts(s, i, cur, parts) ==
  LET keep == IF cur = <<>> \/ cur = <<".">> THEN parts ELSE Append(parts, cur) IN
  IF i > Len(s) THEN keep
  ELSE IF s[i] = "/" THEN PathParts(s, i + 1, <<>>, keep)
  ELSE PathParts(s, i + 1, Append(cur, s[i]), parts)

RECURSIVE JoinPath(_, _)
JoinPath(parts, i) ==
  IF i > Len(parts) THEN <<>>
  ELSE IF i = Len(parts) THEN parts[i]
  ELSE parts[i] \o <<"/">> \o JoinPath(parts, i + 1)

PathStr(s) ==
  LET parts == PathParts(s, 1, <<>>, <<>>)
      root == IF StartsWith(s, <<"/", "/">>) /\ ~StartsWith(s, <<"/", "/", "/">>)
                THEN <<"/", "/">>
              ELSE IF StartsWith(s, <<"/">>) THEN <<"/">> ELSE <<>>
      body == root \o JoinPath(parts, 1)
  IN IF body = <<>> THEN <<".">> ELSE body

(***************************************************************************)
(* The passes of the analyzer.  Raise is the update                        *)
(*     if LEVEL.value > level.value: level = LEVEL                         *)
(* that every finding applies to the running maximum.                      *)
(***************************************************************************)
\* the update without its comparison: the last finding wins
RaiseUnguarded(level, found) == found

Raise(level, found) == IF found > level THEN found ELSE level

RECURSIVE ListOfSet(_)
\* list(set(...)): the members once each, in an order the code does not fix
ListOfSet(S) ==
  IF S = {} THEN <<>>
  ELSE LET x == CHOOSE x \in S : TRUE IN <<x>> \o ListOfSet(S \ {x})

\* a list handed on with its repetitions
Undeduplicated(seq) == seq

\* list(set(suggestions))
Deduplicated(seq) == ListOfSet(Range(seq))

\* the reason of the first rule only
FirstReasonOf(rules) == IF rules = <<>> THEN <<>> ELSE <<rules[1].reason>>

\* the matching rules, the last of the table first
MatchingLastFirst(table, s) ==
  LET m == SelectSeq(table, LAMBDA r : Search(r.pat, s))
  IN [i \in 1..Len(m) |-> m[Len(m) + 1 - i]]

\* the rules of a table that match, in table order
Matching(table, s) == SelectSeq(table, LAMBDA r : Search(r.pat, s))
ReasonsOf(rules) == [i \in 1..Len(rules) |-> rules[i].reason]
Repeat(x, n) == [i \in 1..n |-> x]

\* a context is the dict passed to analyze_command; present = FALSE stands
\* for None (and for the empty dict, which is false as well)
NoContext == [present |-> FALSE, cwd |-> <<>>, files |-> <<>>]
Context(cwd, files) == [present |-> TRUE, cwd |-> cwd, files |-> files]

ImportantSuffixes == {<<".", "c", "o", "n", "f">>, <<".", "c", "f", "g">>, <<".", "i", "n", "i">>, <<".", "y", "a", "m", "l">>, <<".", "j", "s", "o", "n">>}
IsImportantFile(f) ==
  StartsWith(f, <<".">>) \/ \E x \in ImportantSuffixes : EndsWith(f, x)

\* a context pass that reports nothing
_analyze_context_silent(command, context) == CommandRisk(SAFE, <<>>, <<>>)

_analyze_context(command, context) ==
  LET cwd == context.cwd
      hits == IF cwd # <<>>
              THEN SelectSeq(protected_paths,
                     LAMBDA p : StartsWith(PathStr(cwd), p.chars) /\ p.name # "/")
              ELSE <<>>
      level1 == IF hits # <<>> THEN Raise(SAFE, MEDIUM) ELSE SAFE
      touches == Contains(Lower(command), <<"r", "m">>) \/ Contains(Lower(command), <<"m", "v">>)
      important == SelectSeq(context.files, IsImportantFile)
      conf == touches /\ important # <<>>
      level2 == IF conf THEN Raise(level1, LOW) ELSE level1
  IN CommandRisk(level2,
       [i \in 1..Len(hits) |-> "Operating in protected directory: " \o hits[i].name]
         \o (IF conf THEN <<"Command may affect configuration files">> ELSE <<>>),
       Repeat("Be extra careful when modifying system directories", Len(hits))
         \o (IF conf THEN <<"Backup important files before modification">> ELSE <<>>))

ChainOps == <<<<"&", "&">>, <<"|", "|">>, <<";">>>>
RedirectSystem == <<Lit(<<">">>), OptSpaces, Alt(<<<<"/", "e", "t", "c">>, <<"/", "u", "s", "r">>, <<"/", "v", "a", "r">>>>)>>
RmWildcard == <<Lit(<<"r", "m">>), Spaces, AnyStar, Lit(<<"*">>)>>
ChmodWildcard == <<Lit(<<"c", "h", "m", "o", "d">>), Spaces, AnyStar, Lit(<<"*">>)>>
PipeToShell == <<Lit(<<"|">>), OptSpaces, Alt(<<<<"b", "a", "s", "h">>, <<"s", "h">>, <<"z", "s", "h">>, <<"f", "i", "s", "h">>>>)>>

_analyze_structure(command) ==
  LET chain == \E i \in 1..Len(ChainOps) : Contains(command, ChainOps[i])
      level1 == IF chain THEN Raise(SAFE, LOW) ELSE SAFE
      redirect == Search(RedirectSystem, command)
      level2 == IF redirect THEN Raise(level1, MEDIUM) ELSE level1
      wildcard == Search(RmWildcard, command) \/ Search(ChmodWildcard, command)
      level3 == IF wildcard THEN Raise(level2, MEDIUM) ELSE level2
      pipe == Search(PipeToShell, command)
      level4 == IF pipe THEN Raise(level3, HIGH) ELSE level3
      split == ShlexSplit(command)
      exe == IF ~split.err /\ split.toks # <<>>
             THEN {d \in dangerous_executables : d.chars = Basename(split.toks[1])}
             ELSE {}
      level5 == IF split.err THEN Raise(level4, LOW)
                ELSE IF exe # {} THEN Raise(level4, MEDIUM) ELSE level4
  IN CommandRisk(level5,
       (IF chain THEN <<"Command contains multiple operations">> ELSE <<>>)
         \o (IF redirect THEN <<"Output redirection to system directories">> ELSE <<>>)
         \o (IF wildcard THEN <<"Wildcard usage in potentially destructive command">> ELSE <<>>)
         \o (IF pipe THEN <<"Piping output to shell execution">> ELSE <<>>)
         \o (IF split.err THEN <<"Command has malformed syntax">>
             ELSE IF exe # {}
               THEN <<"Using potentially dangerous executable: "
                        \o (CHOOSE d \in exe : TRUE).name>>
             ELSE <<>>),
       (IF chain THEN <<"Review each operation in the chain">> ELSE <<>>)
         \o (IF redirect THEN <<"Ensure you have proper permissions and backup files">> ELSE <<>>)
         \o (IF wildcard THEN <<"Be specific about target files instead of using wildcards">>
             ELSE <<>>)
         \o (IF pipe THEN <<"Verify the source and content before execution">> ELSE <<>>)
         \o (IF split.err THEN <<"Check command syntax before execution">>
             ELSE IF exe # {} THEN <<"Ensure you understand the implications of this command">>
             ELSE <<>>))

CriticalSuggestions ==
  <<"This command can cause irreversible system damage",
    "Consider alternatives or seek expert help">>

analyze_command(command, context) ==
  IF Strip(command) = <<>> THEN CommandRisk(SAFE, <<>>, <<>>)
  ELSE
  LET command_lower == Strip(Lower(command))
      crit == Matching(critical_patterns, command_lower)
  IN IF crit # <<>> THEN CommandRisk(CRITICAL, <<crit[1].reason>>, CriticalSuggestions)
  ELSE
  LET high == Matching(high_patterns, command_lower)
      level1 == IF high # <<>> THEN Raise(SAFE, HIGH) ELSE SAFE
      medium == Matching(medium_patterns, command_lower)
      level2 == IF medium # <<>> THEN Raise(level1, MEDIUM) ELSE level1
      low == Matching(low_patterns, command_lower)
      level3 == IF low # <<>> THEN Raise(level2, LOW) ELSE level2
      context_risks == IF context.present THEN _analyze_context(command, context)
                       ELSE CommandRisk(SAFE, <<>>, <<>>)
      level4 == Raise(level3, context_risks.level)
      structure_risk == _analyze_structure(command)
      max_level == Raise(level4, structure_risk.level)
      reasons == ReasonsOf(high) \o ReasonsOf(medium) \o ReasonsOf(low)
                   \o context_risks.reasons \o structure_risk.reasons
      suggestions ==
        Repeat("Double-check the target path and consider backing up first", Len(high))
          \o Repeat("Verify the operation is intended and paths are correct", Len(medium))
          \o Repeat("Review the operation carefully", Len(low))
          \o context_risks.suggestions \o structure_risk.suggestions
      split == ShlexSplit(command)
  IN IF max_level = SAFE /\ ~split.err /\ split.toks # <<>> /\ split.toks[1] \in safe_prefixes
     THEN CommandRisk(SAFE, <<"Safe read-only operation">>, <<>>)
     ELSE CommandRisk(max_level, reasons, Deduplicated(suggestions))

(***************************************************************************)
(* Inputs: the commands and the contexts the analyzer is applied to.       *)
(***************************************************************************)
Commands == {
  <<>>, <<" ", " ", " ">>,
  <<"l", "s", " ", "-", "l", "a">>, <<"c", "a", "t", " ", "R", "E", "A", "D", "M", "E", ".", "m", "d">>, <<"p", "w", "d">>, <<"f", "o", "o">>, <<"e", "c", "h", "o", " ", "'", "t", "e", "s", "t", "'">>,
  <<"r", "m", " ", "t", "e", "m", "p", ".", "t", "x", "t">>, <<"c", "h", "m", "o", "d", " ", "+", "x", " ", "s", "c", "r", "i", "p", "t", ".", "s", "h">>, <<"s", "u", "d", "o", " ", "a", "p", "t", " ", "u", "p", "d", "a", "t", "e">>,
  <<"s", "u", "d", "o", " ", "m", "o", "u", "n", "t", " ", "/", "d", "e", "v", "/", "s", "d", "b", "1", " ", "/", "m", "n", "t">>, <<"s", "u", "d", "o", " ", "r", "e", "b", "o", "o", "t">>,
  <<"r", "m", " ", "-", "r", "f", " ", "t", "e", "m", "p", "_", "f", "o", "l", "d", "e", "r">>, <<"c", "h", "m", "o", "d", " ", "7", "7", "7", " ", "c", "o", "n", "f", "i", "g", ".", "i", "n", "i">>, <<"c", "h", "m", "o", "d", " ", "7", "5", "5", " ", "r", "u", "n", ".", "s", "h">>,
  <<"w", "g", "e", "t", " ", "h", "t", "t", "p", ":", "/", "/", "e", ".", "c", "o", "m", "/", "s", ".", "s", "h", " ", "|", " ", "b", "a", "s", "h">>, <<"w", "g", "e", "t", " ", "u", " ", "|", " ", "s", "h", ";", " ", "c", "u", "r", "l", " ", "u", " ", "|", " ", "s", "h">>,
  <<"s", "u", "d", "o", " ", "r", "m", " ", "-", "r", "f", " ", "/", "v", "a", "r", "/", "l", "o", "g", "/", "*">>, <<"s", "u", "d", "o", " ", "r", "m", " ", "-", "r", "f", " ", "t", "e", "m", "p">>, <<"c", "h", "m", "o", "d", " ", "-", "R", " ", "7", "7", "7", " ", "/">>,
  <<"c", "h", "m", "o", "d", " ", "-", "R", " ", "0", "0", "0", " ", "/">>, <<"c", "h", "m", "o", "d", " ", "-", "r", " ", "7", "7", "7", " ", "/", "h", "o", "m", "e">>, <<"i", "p", "t", "a", "b", "l", "e", "s", " ", "-", "F">>, <<"h", "i", "s", "t", "o", "r", "y", " ", "-", "c">>,
  <<"s", "h", "r", "e", "d", " ", "-", "u", " ", "k", "e", "y", ".", "p", "e", "m">>, <<"r", "m", " ", "-", "r", "f", " ", "/">>, <<"R", "M", " ", "-", "R", "F", " ", "/">>, <<"r", "m", " ", "-", "r", "f", " ", "/", " ", ";", " ", "r", "m", " ", "-", "r", "f", " ", "*">>,
  <<"r", "m", " ", "-", "r", "f", " ", "*">>, <<":", "(", ")", "{", " ", ":", "|", ":", "&", " ", "}", ";", ":">>, <<":", "(", ")", "{", ":", "|", ":", "&", "}", ";", ":">>,
  <<"d", "d", " ", "i", "f", "=", "/", "d", "e", "v", "/", "z", "e", "r", "o", " ", "o", "f", "=", "/", "d", "e", "v", "/", "s", "d", "a">>, <<"m", "k", "f", "s", ".", "e", "x", "t", "4", " ", "/", "d", "e", "v", "/", "s", "d", "b">>,
  <<"e", "c", "h", "o", " ", "'", "x", "'", " ", ">", " ", "/", "e", "t", "c", "/", "p", "a", "s", "s", "w", "d">>, <<"e", "c", "h", "o", " ", "x", " ", ">", " ", "/", "e", "t", "c", "/", "h", "o", "s", "t", "s">>, <<"e", "c", "h", "o", " ", "x", " ", ">", " ", "/", "b", "o", "o", "t", "/", "g", "r", "u", "b", ".", "c", "f", "g">>,
  <<"e", "c", "h", "o", " ", "x", " ", ">", " ", "/", "v", "a", "r", "/", "l", "o", "g", "/", "a", "p", "p", ".", "l", "o", "g">>, <<"e", "c", "h", "o", " ", "'", "u", "n", "c", "l", "o", "s", "e", "d">>, <<"r", "m", " ", "'", "a", " ", "b">>,
  <<"l", "s", " ", "&", "&", " ", "p", "w", "d">>, <<"/", "s", "b", "i", "n", "/", "f", "d", "i", "s", "k", " ", "-", "l">>, <<"f", "o", "r", "m", "a", "t", " ", "d", "i", "s", "k">>, <<"m", "v", " ", "a", "p", "p", ".", "c", "o", "n", "f", " ", "o", "l", "d">>,
  <<"r", "m", " ", "*", ".", "t", "x", "t">>, <<"c", "a", "t", " ", "x", " ", "|", " ", "s", "h">>,
  <<"r", "m", " ", "-", "r", "f", " ", "/", " ", "'", "x">>, <<"l", "s", ";", " ", "e", "c", "h", "o", " ", "'", "x">>, <<" ", "\t">>, <<"s", "u", "d", "o", " ", "r", "m", " ", "-", "r", "f", " ", "t", "e", "m", "p", ";", " ", "c", "h", "m", "o", "d", " ", "+", "x", " ", "a">> }

Cwds == { <<>>, <<"/">>, <<"/", "t", "m", "p", "/", "w", "o", "r", "k">>, <<"/", "h", "o", "m", "e", "/", "u", "s", "e", "r">>, <<"/", "e", "t", "c">>, <<"/", "v", "a", "r", "/", "l", "o", "g", "/">> }
FileLists == { <<>>, <<<<"n", "o", "t", "e", "s", ".", "t", "x", "t">>>>, <<<<"a", ".", "t", "x", "t">>, <<"a", "p", "p", ".", "c", "o", "n", "f">>>>, <<<<".", "e", "n", "v">>>> }
Contexts == {NoContext} \cup {Context(c, f) : c \in Cwds, f \in FileLists}

(***************************************************************************)
(* The shell session (llmshell/core.py).                                   *)
(***************************************************************************)
\* ExecutionConfig.timeout, the default
TimeoutSeconds == 60
\* the cap of the in-memory history
HistoryLimit == 50
\* the number of user inputs a session reads
MaxInputs == 2
\* _load_session_context loads the ten most recent entries of the store
SessionLoadLimit == 10
\* the calls of execute_command in a row
MaxCalls == 55
\* the calls among them whose record the sink refuses
MaxSinkFailures == 1
\* the entries an earlier session left in the store
MaxPrior == 12
\* the cd commands in a row
MaxCdCalls == 2

RECURSIVE IntToChars(_)
\* str(n) of a natural number, as in an f-string
IntToChars(n) ==
  IF n < 10 THEN <<DigitChars[n + 1]>>
  ELSE IntToChars(n \div 10) \o <<DigitChars[(n % 10) + 1]>>

RECURSIVE SplitWords(_, _, _, _)
\* str.split(): the maximal runs of characters that are not white space
SplitWords(s, i, cur, words) ==
  LET keep == IF cur = <<>> THEN words ELSE Append(words, cur) IN
  IF i > Len(s) THEN keep
  ELSE IF s[i] \in WS THEN SplitWords(s, i + 1, <<>>, keep)
  ELSE SplitWords(s, i + 1, Append(cur, s[i]), words)

Split(s) == SplitWords(s, 1, <<>>, <<>>)

natural_language_indicators == {
  <<"p", "l", "e", "a", "s", "e">>, <<"c", "a", "n", " ", "y", "o", "u">>, <<"h", "o", "w", " ", "t", "o">>, <<"s", "h", "o", "w", " ", "m", "e">>, <<"f", "i", "n", "d", " ", "a", "l", "l">>, <<"l", "i", "s", "t", " ", "a", "l", "l">>,
  <<"w", "h", "a", "t", " ", "i", "s">>, <<"w", "h", "e", "r", "e", " ", "i", "s">>, <<"c", "o", "u", "n", "t">>, <<"d", "i", "s", "p", "l", "a", "y">>, <<"g", "e", "t">>, <<"m", "a", "k", "e">> }
direct_commands == {
  <<"l", "s">>, <<"c", "d">>, <<"p", "w", "d">>, <<"g", "r", "e", "p">>, <<"f", "i", "n", "d">>, <<"p", "s">>, <<"d", "f">>, <<"f", "r", "e", "e">>, <<"c", "h", "m", "o", "d">>,
  <<"c", "h", "o", "w", "n">>, <<"m", "v">>, <<"c", "p">>, <<"r", "m">>, <<"m", "k", "d", "i", "r">>, <<"r", "m", "d", "i", "r">> }

\* user_input is not empty and has no white space around it
detect_command_type(user_input, aiMode) ==
  IF Split(Strip(user_input))[1] \in direct_commands THEN "direct"
  ELSE IF \E ind \in natural_language_indicators : Contains(Lower(user_input), ind)
    THEN "natural"
  ELSE IF Len(Split(user_input)) <= 2
          /\ ~\E i \in 1..Len(user_input) : user_input[i] \in {"?", ".", ",", ";"}
    THEN "direct"
  ELSE IF aiMode THEN "natural" ELSE "direct"

(***************************************************************************)
(* The file system the session runs in: the directories that exist, with   *)
(* the names each holds, and the home directory.                           *)
(***************************************************************************)
HomeDir == <<"/", "h", "o", "m", "e", "/", "u", "s", "e", "r">>
Directories == {<<"/">>, <<"/", "h", "o", "m", "e">>, <<"/", "h", "o", "m", "e", "/", "u", "s", "e", "r">>, <<"/", "e", "t", "c">>, <<"/", "t", "m", "p">>}
ListDir(d) ==
  IF d = <<"/", "h", "o", "m", "e", "/", "u", "s", "e", "r">> THEN <<<<".", "b", "a", "s", "h", "r", "c">>, <<"n", "o", "t", "e", "s", ".", "t", "x", "t">>, <<"a", "p", "p", ".", "c", "o", "n", "f">>>>
  ELSE IF d = <<"/", "e", "t", "c">> THEN <<<<"h", "o", "s", "t", "s">>, <<"p", "a", "s", "s", "w", "d">>>>
  ELSE IF d = <<"/", "h", "o", "m", "e">> THEN <<<<"u", "s", "e", "r">>>>
  ELSE IF d = <<"/">> THEN <<<<"e", "t", "c">>, <<"h", "o", "m", "e">>, <<"t", "m", "p">>>>
  ELSE <<>>

\* EnhancedContextAnalyzer._get_basic_context: cwd, and the first ten names
\* in the directory that do not start with a dot
get_context(directory) ==
  LET names == SelectSeq(ListDir(directory), LAMBDA f : ~StartsWith(f, <<".">>))
  IN Context(directory, SubSeq(names, 1, IF Len(names) < 10 THEN Len(names) ELSE 10))

analyze_command_safety(cmd, directory) == analyze_command(cmd, get_context(directory))

get_safety_tips(cmd) ==
  (IF Contains(Lower(cmd), <<"r", "m">>)
     THEN <<"Use 'ls' first to see what files will be affected",
            "Consider using 'trash' command instead of 'rm' for recoverable deletion",
            "Always double-check paths before deletion">>
     ELSE <<>>)
  \o (IF Contains(Lower(cmd), <<"s", "u", "d", "o">>)
     THEN <<"Understand why sudo privileges are needed",
            "Verify the command is from a trusted source",
            "Consider if there's a non-privileged alternative">>
     ELSE <<>>)
  \o (IF Contains(cmd, <<">">>) \/ Contains(cmd, <<">", ">">>)
     THEN <<"Backup the target file before overwriting",
            "Use '>>' for appending instead of '>' for overwriting when appropriate">>
     ELSE <<>>)

(***************************************************************************)
(* Confirmation.  A prompt is one Confirm.ask call: its text and default.  *)
(***************************************************************************)
Ask(text, default) == [text |-> text, default |-> default]

\* the prompts of the natural-language flow with the MEDIUM default of the
\* direct-command flow
NaturalPromptsStrict(risk, alwaysConfirm) ==
  IF alwaysConfirm \/ requires_confirmation(risk) THEN
    IF risk.level = CRITICAL THEN
      <<Ask("Type 'I understand the risks' to continue", FALSE),
        Ask("Are you absolutely certain you want to proceed?", FALSE)>>
    ELSE IF risk.level = HIGH THEN
      <<Ask("Are you sure you want to execute this high-risk command?", FALSE)>>
    ELSE IF risk.level = MEDIUM THEN
      <<Ask("Proceed with this potentially risky command?", FALSE)>>
    ELSE <<Ask("Execute this command?", TRUE)>>
  ELSE <<>>

\* the prompts _handle_natural_language asks for a verdict, in order
NaturalPrompts(risk, alwaysConfirm) ==
  IF alwaysConfirm \/ requires_confirmation(risk) THEN
    IF risk.level = CRITICAL THEN
      <<Ask("Type 'I understand the risks' to continue", FALSE),
        Ask("Are you absolutely certain you want to proceed?", FALSE)>>
    ELSE IF risk.level = HIGH THEN
      <<Ask("Are you sure you want to execute this high-risk command?", FALSE)>>
    ELSE IF risk.level = MEDIUM THEN
      <<Ask("Proceed with this potentially risky command?", TRUE)>>
    ELSE IF risk.level = LOW THEN
      <<Ask("Execute this command?", TRUE)>>
    ELSE IF alwaysConfirm THEN <<Ask("Execute this command?", TRUE)>>
    ELSE <<>>
  ELSE <<>>

\* the prompts of the "Risk-based confirmation" of _handle_direct_command
DirectPrompts(risk) ==
  IF risk.level = CRITICAL THEN
    <<Ask("Are you absolutely certain you want to proceed?", FALSE)>>
  ELSE IF risk.level = HIGH THEN
    <<Ask("Are you sure you want to execute this high-risk command?", FALSE)>>
  ELSE IF risk.level = MEDIUM THEN
    <<Ask("Proceed with this potentially risky command?", FALSE)>>
  ELSE <<Ask("Are you sure you want to execute this command?", TRUE)>>

\* DangerLevel derives from Enum, not IntEnum: its members define no
\* ordering, and  a >= b  on two members raises TypeError.  (The analyzer
\* compares the members' .value instead.)
DangerLevelGE(a, b) == [raised |-> TRUE, value |-> FALSE]

\* a handler that goes on whatever the answer
DeclineIgnored(accept) == FALSE

\* if not Confirm.ask(...): "Command cancelled", return True
Declined(accept) == ~accept

(***************************************************************************)
(* Execution and history.                                                  *)
(***************************************************************************)
\* what subprocess.run does: it returns, times out, or fails to start
NoRun == [kind |-> "none", returncode |-> 0, stdout |-> <<>>, stderr |-> <<>>]
Builtin == [kind |-> "builtin", returncode |-> 0, stdout |-> <<>>, stderr |-> <<>>]
ExecResults == {
  [kind |-> "exit", returncode |-> 0, stdout |-> <<"o", "u", "t">>, stderr |-> <<>>],
  [kind |-> "exit", returncode |-> 1, stdout |-> <<>>, stderr |-> <<"e", "r", "r">>],
  [kind |-> "timeout", returncode |-> 0, stdout |-> <<>>, stderr |-> <<>>],
  [kind |-> "error", returncode |-> 0, stdout |-> <<>>, stderr |-> <<"d", "e", "n", "i", "e", "d">>] }

HistoryEntry(user_input, cmd, command_type, success, directory, exit_code, error_message) ==
  [user_input |-> user_input, translated_command |-> cmd, command_type |-> command_type,
   success |-> success, working_directory |-> directory, exit_code |-> exit_code,
   error_message |-> error_message]

\* a subprocess.run that exits 0
Succeeds == [kind |-> "exit", returncode |-> 0, stdout |-> <<"o", "u", "t">>, stderr |-> <<>>]

\* the first n entries
FirstN(h, n) == IF Len(h) > n THEN SubSeq(h, 1, n) ELSE h

\* self.history[-50:] after the append
LastN(h, n) == IF Len(h) > n THEN SubSeq(h, Len(h) - n + 1, Len(h)) ELSE h

\* recording without the try/except: the failure of the sink is raised
RecordUnguarded(s, user_input, cmd, command_type, success, exit_code, error_message, sinkOk) ==
  IF sinkOk
  THEN [raised |-> FALSE,
        db |-> Append(s.db, HistoryEntry(user_input, cmd, command_type, success, s.cwd,
                                         exit_code, error_message)),
        history |-> LastN(Append(s.history, <<user_input, cmd, success>>), HistoryLimit)]
  ELSE [raised |-> TRUE, db |-> s.db, history |-> s.history]

\* s is the session's [history, db, cwd]; sinkOk = FALSE makes
\* HistoryManager.add_entry raise.  The except clause swallows it.
_record_command_history(s, user_input, cmd, command_type, success, exit_code, error_message, sinkOk) ==
  IF sinkOk
  THEN [raised |-> FALSE,
        db |-> Append(s.db, HistoryEntry(user_input, cmd, command_type, success, s.cwd,
                                         exit_code, error_message)),
        history |-> LastN(Append(s.history, <<user_input, cmd, success>>), HistoryLimit)]
  ELSE [raised |-> FALSE, db |-> s.db, history |-> s.history]

RECURSIVE ResolveParts(_, _, _)
\* Path.resolve() on a file system without symbolic links: ".." steps up
ResolveParts(parts, i, acc) ==
  IF i > Len(parts) THEN acc
  ELSE IF parts[i] = <<".", ".">>
    THEN ResolveParts(parts, i + 1, IF acc = <<>> THEN acc ELSE SubSeq(acc, 1, Len(acc) - 1))
  ELSE ResolveParts(parts, i + 1, Append(acc, parts[i]))

Resolve(path) ==
  <<"/">> \o JoinPath(ResolveParts(PathParts(path, 1, <<>>, <<>>), 1, <<>>), 1)

\* [ok, stdout, stderr, cwd]: the result and the session directory after it
_handle_cd_command(cmd, cwd) ==
  LET split == ShlexSplit(cmd) IN
  IF split.err
  THEN [ok |-> FALSE, stdout |-> <<>>, stderr |-> <<"c", "d", " ", "e", "r", "r", "o", "r", ":", " ">> \o split.msg,
        cwd |-> cwd]
  ELSE
  LET parts == split.toks
      target == IF Len(parts) = 1 THEN HomeDir
                ELSE IF parts[2] = <<"~">> THEN HomeDir
                ELSE IF StartsWith(parts[2], <<"~", "/">>)
                  THEN HomeDir \o <<"/">> \o SubSeq(parts[2], 3, Len(parts[2]))
                ELSE IF StartsWith(parts[2], <<"/">>) THEN parts[2]
                ELSE cwd \o <<"/">> \o parts[2]
      resolved == Resolve(target)
  IN IF resolved \in Directories
     THEN [ok |-> TRUE, stdout |-> resolved, stderr |-> <<>>, cwd |-> resolved]
     ELSE [ok |-> FALSE, stdout |-> <<>>, stderr |-> <<"D", "i", "r", "e", "c", "t", "o", "r", "y", " ", "n", "o", "t", " ", "f", "o", "u", "n", "d", ":", " ">> \o resolved,
           cwd |-> cwd]

Returned(success, stdout, stderr, rec, cwd, runs) ==
  [raised |-> FALSE, success |-> success, stdout |-> stdout, stderr |-> stderr,
   db |-> rec.db, history |-> rec.history, cwd |-> cwd, runs |-> runs]

\* an except clause that reports the error and records nothing
ExecutionErrorUnrecorded(s, user_input, cmd, command_type, message, sinkOk, runs) ==
  Returned(FALSE, <<>>, <<"E", "x", "e", "c", "u", "t", "i", "o", "n", " ", "e", "r", "r", "o", "r", ":", " ">> \o message,
           [db |-> s.db, history |-> s.history], s.cwd, runs)

\* the  except Exception  clause of execute_command
ExecutionError(s, user_input, cmd, command_type, message, sinkOk, runs) ==
  LET error_msg == <<"E", "x", "e", "c", "u", "t", "i", "o", "n", " ", "e", "r", "r", "o", "r", ":", " ">> \o message
      rec == _record_command_history(s, IF user_input # <<>> THEN user_input ELSE cmd, cmd,
               command_type, FALSE, -1, error_msg, sinkOk)
  IN IF rec.raised
     THEN [raised |-> TRUE, success |-> FALSE, stdout |-> <<>>, stderr |-> <<>>,
           db |-> s.db, history |-> s.history, cwd |-> s.cwd, runs |-> runs]
     ELSE Returned(FALSE, <<>>, error_msg, rec, s.cwd, runs)

\* a timeout clause that runs the command once more before it gives up
TimedOutRetried(s, user_input, cmd, command_type, sinkOk) ==
  LET error_msg == <<"C", "o", "m", "m", "a", "n", "d", " ", "t", "i", "m", "e", "d", " ", "o", "u", "t", " ", "a", "f", "t", "e", "r", " ">> \o IntToChars(TimeoutSeconds) \o <<" ", "s", "e", "c", "o", "n", "d", "s">>
      rec == _record_command_history(s, IF user_input # <<>> THEN user_input ELSE cmd, cmd,
               command_type, FALSE, -1, error_msg, sinkOk)
  IN Returned(FALSE, <<>>, error_msg, rec, s.cwd, 2)

\* the  except subprocess.TimeoutExpired  clause of execute_command: one
\* call of subprocess.run was made, and none follows
TimedOut(s, user_input, cmd, command_type, sinkOk) ==
  LET error_msg == <<"C", "o", "m", "m", "a", "n", "d", " ", "t", "i", "m", "e", "d", " ", "o", "u", "t", " ", "a", "f", "t", "e", "r", " ">> \o IntToChars(TimeoutSeconds) \o <<" ", "s", "e", "c", "o", "n", "d", "s">>
      rec == _record_command_history(s, IF user_input # <<>> THEN user_input ELSE cmd, cmd,
               command_type, FALSE, -1, error_msg, sinkOk)
  IN IF rec.raised
     THEN [raised |-> TRUE, success |-> FALSE, stdout |-> <<>>, stderr |-> <<>>,
           db |-> s.db, history |-> s.history, cwd |-> s.cwd, runs |-> 1]
     ELSE Returned(FALSE, <<>>, error_msg, rec, s.cwd, 1)

\* s is the session's [history, db, cwd]; run is what subprocess.run does
\* when it is called; runs counts the calls of subprocess.run
execute_command(s, cmd, user_input, command_type, run, sinkOk) ==
  LET shown == IF user_input # <<>> THEN user_input ELSE cmd IN
  IF StartsWith(Strip(cmd), <<"c", "d", " ">>) THEN
    LET cd == _handle_cd_command(cmd, s.cwd)
        moved == [s EXCEPT !.cwd = cd.cwd]
        rec == _record_command_history(moved, shown, cmd, command_type, cd.ok,
                 IF cd.ok THEN 0 ELSE 1, cd.stderr, sinkOk)
    IN IF rec.raised
       THEN ExecutionError(moved, user_input, cmd, command_type, <<"s", "i", "n", "k">>, sinkOk, 0)
       ELSE Returned(cd.ok, cd.stdout, cd.stderr, rec, cd.cwd, 0)
  ELSE IF run.kind = "exit" THEN
    LET success == run.returncode = 0
        rec == _record_command_history(s, shown, cmd, command_type, success,
                 run.returncode, run.stderr, sinkOk)
    IN IF rec.raised
       THEN ExecutionError(s, user_input, cmd, command_type, <<"s", "i", "n", "k">>, sinkOk, 1)
       ELSE Returned(success, run.stdout, run.stderr, rec, s.cwd, 1)
  ELSE IF run.kind = "timeout" THEN TimedOut(s, user_input, cmd, command_type, sinkOk)
  ELSE ExecutionError(s, user_input, cmd, command_type, run.stderr, sinkOk, 1)

(***************************************************************************)
(* The project context (llmshell/context.py).  The files of a directory    *)
(* can change while the session runs: created holds the directories in     *)
(* which a package.json has appeared since the session started.            *)
(***************************************************************************)
JoinDir(d, n) == IF d = <<"/">> THEN d \o n ELSE d \o <<"/">> \o n
\* directory.iterdir(), by name
DirEntries(d, created) ==
  ListDir(d) \o (IF d \in created THEN <<<<"p", "a", "c", "k", "a", "g", "e", ".", "j", "s", "o", "n">>>> ELSE <<>>)
IsDir(d, n) == JoinDir(d, n) \in Directories

\* confidence in percent
Candidate(t, c) == [project_type |-> t, confidence |-> c]
HasAny(indicators, fs) == indicators \cap fs # {}
AnyEndsWith(fs, exts) == \E f \in fs : \E e \in exts : EndsWith(f, e)

\* project_types, in the order of the appends; files_in_dir are the
\* lower-cased names of the files, dir_names the names of the directories
ProjectTypes(files_in_dir, dir_names, has_git) ==
  (IF HasAny({<<"r", "e", "q", "u", "i", "r", "e", "m", "e", "n", "t", "s", ".", "t", "x", "t">>, <<"p", "y", "p", "r", "o", "j", "e", "c", "t", ".", "t", "o", "m", "l">>, <<"s", "e", "t", "u", "p", ".", "p", "y">>, <<"s", "e", "t", "u", "p", ".", "c", "f", "g">>, <<"p", "i", "p", "f", "i", "l", "e">>, <<"p", "o", "e", "t", "r", "y", ".", "l", "o", "c", "k">>, <<"c", "o", "n", "d", "a", ".", "y", "m", "l">>, <<"e", "n", "v", "i", "r", "o", "n", "m", "e", "n", "t", ".", "y", "m", "l">>}, files_in_dir) THEN <<Candidate("python", 90)>>
   ELSE IF AnyEndsWith(files_in_dir, {<<".", "p", "y">>}) THEN <<Candidate("python", 60)>> ELSE <<>>)
  \o (IF HasAny({<<"p", "a", "c", "k", "a", "g", "e", ".", "j", "s", "o", "n">>, <<"y", "a", "r", "n", ".", "l", "o", "c", "k">>, <<"p", "a", "c", "k", "a", "g", "e", "-", "l", "o", "c", "k", ".", "j", "s", "o", "n">>, <<"p", "n", "p", "m", "-", "l", "o", "c", "k", ".", "y", "a", "m", "l">>}, files_in_dir) THEN <<Candidate("nodejs", 90)>>
      ELSE IF <<"n", "o", "d", "e", "_", "m", "o", "d", "u", "l", "e", "s">> \in dir_names THEN <<Candidate("nodejs", 70)>> ELSE <<>>)
  \o (IF <<"c", "a", "r", "g", "o", ".", "t", "o", "m", "l">> \in files_in_dir THEN <<Candidate("rust", 95)>>
      ELSE IF AnyEndsWith(files_in_dir, {<<".", "r", "s">>}) THEN <<Candidate("rust", 60)>> ELSE <<>>)
  \o (IF HasAny({<<"g", "o", ".", "m", "o", "d">>, <<"g", "o", ".", "s", "u", "m">>}, files_in_dir) THEN <<Candidate("go", 90)>>
      ELSE IF AnyEndsWith(files_in_dir, {<<".", "g", "o">>}) THEN <<Candidate("go", 60)>> ELSE <<>>)
  \o (IF HasAny({<<"p", "o", "m", ".", "x", "m", "l">>, <<"b", "u", "i", "l", "d", ".", "g", "r", "a", "d", "l", "e">>, <<"b", "u", "i", "l", "d", ".", "g", "r", "a", "d", "l", "e", ".", "k", "t", "s">>}, files_in_dir) THEN <<Candidate("java", 90)>>
      ELSE IF AnyEndsWith(files_in_dir, {<<".", "j", "a", "v", "a">>}) THEN <<Candidate("java", 60)>> ELSE <<>>)
  \o (IF HasAny({<<"c", "m", "a", "k", "e", ".", "t", "x", "t">>, <<"m", "a", "k", "e", "f", "i", "l", "e">>, <<"c", "m", "a", "k", "e", "l", "i", "s", "t", "s", ".", "t", "x", "t">>}, files_in_dir) THEN <<Candidate("cpp", 80)>>
      ELSE IF AnyEndsWith(files_in_dir, {<<".", "c", "p", "p">>, <<".", "c", "c">>, <<".", "c", "x", "x">>, <<".", "h", "p", "p">>, <<".", "h">>})
        THEN <<Candidate("cpp", 60)>> ELSE <<>>)
  \o (IF HasAny({<<"i", "n", "d", "e", "x", ".", "h", "t", "m", "l">>, <<"w", "e", "b", "p", "a", "c", "k", ".", "c", "o", "n", "f", "i", "g", ".", "j", "s">>, <<".", "b", "a", "b", "e", "l", "r", "c">>, <<"v", "i", "t", "e", ".", "c", "o", "n", "f", "i", "g", ".", "j", "s">>}, files_in_dir) THEN <<Candidate("web", 80)>> ELSE <<>>)
  \o (IF HasAny({<<"d", "o", "c", "k", "e", "r", "f", "i", "l", "e">>, <<"d", "o", "c", "k", "e", "r", "-", "c", "o", "m", "p", "o", "s", "e", ".", "y", "m", "l">>, <<"d", "o", "c", "k", "e", "r", "-", "c", "o", "m", "p", "o", "s", "e", ".", "y", "a", "m", "l">>, <<".", "d", "o", "c", "k", "e", "r", "i", "g", "n", "o", "r", "e">>}, files_in_dir) THEN <<Candidate("docker", 90)>> ELSE <<>>)
  \o (IF has_git THEN <<Candidate("git", 70)>> ELSE <<>>)
  \o (IF HasAny({<<".", "b", "a", "s", "h", "r", "c">>, <<".", "z", "s", "h", "r", "c">>, <<".", "v", "i", "m", "r", "c">>, <<".", "t", "m", "u", "x", ".", "c", "o", "n", "f">>, <<"a", "n", "s", "i", "b", "l", "e", ".", "c", "f", "g">>}, files_in_dir) THEN <<Candidate("linux_config", 70)>> ELSE <<>>)
  \o (IF Cardinality({f \in files_in_dir : AnyEndsWith({f}, {<<".", "s", "h">>, <<".", "b", "a", "s", "h">>, <<".", "z", "s", "h">>, <<".", "f", "i", "s", "h">>, <<".", "p", "y">>, <<".", "p", "l">>, <<".", "r", "b">>})}) > 2
      THEN <<Candidate("script", 60)>> ELSE <<>>)

\* project_types.sort(key=confidence, reverse=True)[0]: the sort is stable,
\* so of the candidates of the highest confidence the first appended wins
BestCandidate(project_types) ==
  IF project_types = <<>> THEN Candidate("unknown", 10)
  ELSE project_types[CHOOSE i \in 1..Len(project_types) :
         /\ \A j \in 1..Len(project_types) :
              project_types[j].confidence <= project_types[i].confidence
         /\ \A j \in 1..(i - 1) :
              project_types[j].confidence < project_types[i].confidence]

ProjectContext(best, root_directory, key_files) ==
  [project_type |-> best.project_type, confidence |-> best.confidence,
   root_directory |-> root_directory, key_files |-> key_files]

FilesOf(d, entries) == SelectSeq(entries, LAMBDA n : ~IsDir(d, n))

\* the context of a directory as its files are now; the fields that
\* _enhance_context fills in from the contents of files are left out
_detect_project_type(d, created) ==
  ProjectContext(
    BestCandidate(ProjectTypes(
      {Lower(n) : n \in Range(FilesOf(d, DirEntries(d, created)))},
      {n \in Range(DirEntries(d, created)) : IsDir(d, n)},
      <<".", "g", "i", "t">> \in Range(DirEntries(d, created)))),
    d,
    SubSeq(FilesOf(d, DirEntries(d, created)), 1,
           IF Len(FilesOf(d, DirEntries(d, created))) < 10
           THEN Len(FilesOf(d, DirEntries(d, created))) ELSE 10))

\* a directory that was never analyzed has no entry in _project_cache
NotCached == [project_type |-> "(not cached)", confidence |-> 0,
              root_directory |-> <<>>, key_files |-> <<>>]

\* EnhancedContextAnalyzer.analyze_directory: [context, cache], the context
\* returned and the cache after the call.  d is resolved already.
analyze_directory(d, cache, created) ==
  IF cache[d] # NotCached
  THEN [context |-> cache[d], cache |-> cache]
  ELSE [context |-> _detect_project_type(d, created),
        cache |-> [cache EXCEPT ![d] = _detect_project_type(d, created)]]

\* what a cd command does to current_project_context and to the cache
\* (_handle_cd_command, the branch of a target that exists): project is
\* [context, cache] before the command
CdRefresh(cmd, cwd, project, created) ==
  IF StartsWith(Strip(cmd), <<"c", "d", " ">>) /\ _handle_cd_command(cmd, cwd).ok
  THEN analyze_directory(_handle_cd_command(cmd, cwd).cwd, project.cache, created)
  ELSE project

\* what the user types at the shell prompt
UserInputs == {
  <<>>, <<".", "m", "o", "d", "e">>, <<".", "e", "x", "i", "t">>, <<"p", "l", "e", "a", "s", "e", " ", "l", "i", "s", "t", " ", "a", "l", "l", " ", "f", "i", "l", "e", "s">>,
  <<"l", "s", " ", "-", "l", "a">>, <<"r", "m", " ", "t", "e", "m", "p", ".", "t", "x", "t">>, <<"r", "m", " ", "-", "r", "f", " ", "t", "e", "m", "p", "_", "f", "o", "l", "d", "e", "r">>, <<"h", "i", "s", "t", "o", "r", "y", " ", "-", "c">>, <<"r", "m", " ", "-", "r", "f", " ", "/">>,
  <<"c", "d", " ", "/", "e", "t", "c">>, <<"c", "d", " ", "n", "o", "w", "h", "e", "r", "e">> }

\* what the translation facility answers: an error, or a command
Translation(cmd, error) == [command |-> cmd, error |-> error]
Translations == {
  Translation(<<>>, "connection refused"), Translation(<<"l", "s", " ", "-", "l", "a">>, "timed out"), Translation(<<" ", " ">>, ""),
  Translation(<<"l", "s", " ", "-", "l", "a">>, ""), Translation(<<"r", "m", " ", "t", "e", "m", "p", ".", "t", "x", "t">>, ""),
  Translation(<<"r", "m", " ", "-", "r", "f", " ", "t", "e", "m", "p", "_", "f", "o", "l", "d", "e", "r">>, ""), Translation(<<"h", "i", "s", "t", "o", "r", "y", " ", "-", "c">>, ""),
  Translation(<<"r", "m", " ", "-", "r", "f", " ", "/">>, ""), Translation(<<"c", "d", " ", "/", "e", "t", "c">>, "") }

\* analyze_command_safety for the commands and the directories of the
\* session; a verdict depends on the command and the context only
SessionCommands == {Strip(u) : u \in UserInputs} \cup {t.command : t \in Translations}
Verdicts ==
  {[cmd |-> c, directory |-> d, risk |-> analyze_command_safety(c, d)] :
     c \in SessionCommands, d \in Directories}
VerdictOf(c, d) == (CHOOSE v \in Verdicts : v.cmd = c /\ v.directory = d).risk

VARIABLES
  a_command, a_context, verdict, apc,
  always_confirm, safe_mode, ai_mode, current_directory, history, db,
  pc, inputs, typed_input, cur_command, flow, cur_risk, pending, asked, events,
  run_calls, last_run, sink_failed, result, ret, outcome, response,
  current_project_context, project_cache, fs_created, calls, model, switch

\* the analyzer call: its arguments, its result, and whether it returned
avars == <<a_command, a_context, verdict, apc>>
\* the configuration
cvars == <<always_confirm, safe_mode>>
\* the session: mode, directory, in-memory history, persistent history
svars == <<ai_mode, current_directory, history, db>>
\* the input being handled: where the handler stands, the command, its flow
\* and verdict, the prompts still to ask and those asked, what happened:
\* the events in order, the calls of subprocess.run and what the last one
\* did, whether the history sink failed, the result of execute_command,
\* what process_user_input returned and how the attempt ended, and what
\* the translation facility answered for it
hvars == <<pc, inputs, typed_input, cur_command, flow, cur_risk, pending, asked, events,
           run_calls, last_run, sink_failed, result, ret, outcome, response>>
\* the project: the context of the session's directory, the analyzer's
\* cache of contexts by directory, and the directories whose files changed
pvars == <<current_project_context, project_cache, fs_created>>
\* the number of execute_command calls made on the session directly, the
\* provider's configured model, and the last switch_model call
mvars == <<calls, model, switch>>
vars == <<avars, cvars, svars, hvars, pvars, mvars>>

\* LLMConfig.model
DefaultModel == <<"l", "l", "a", "m", "a", "3", ":", "l", "a", "t", "e", "s", "t">>
NoSwitch == [called |-> FALSE]
NoResponse == [command |-> <<>>, error |-> "(not translated)"]
NoVerdict == CommandRisk(SAFE, <<"(not analyzed)">>, <<>>)
NoResult == [success |-> FALSE, stdout |-> <<>>, stderr |-> <<"(", "n", "o", "t", " ", "e", "x", "e", "c", "u", "t", "e", "d", ")">>]

AnalyzerIdle ==
  /\ a_command = <<>>
  /\ a_context = NoContext
  /\ verdict = NoVerdict
  /\ apc = "idle"

\* ShellSession.__init__, but for the history: at the shell prompt
SessionIdle ==
  /\ ai_mode = TRUE
  /\ current_directory = HomeDir
  /\ pc = "prompt"
  /\ inputs = 0
  /\ typed_input = <<>>
  /\ cur_command = <<>>
  /\ flow = "none"
  /\ cur_risk = NoVerdict
  /\ pending = <<>>
  /\ asked = <<>>
  /\ events = <<>>
  /\ run_calls = 0
  /\ last_run = NoRun
  /\ sink_failed = FALSE
  /\ result = NoResult
  /\ ret = "none"
  /\ outcome = "none"
  /\ response = NoResponse
  /\ fs_created = {}
  /\ project_cache = [d \in Directories |->
                        IF d = HomeDir THEN _detect_project_type(d, {}) ELSE NotCached]
  /\ current_project_context = _detect_project_type(HomeDir, {})
  /\ calls = 0
  /\ model = DefaultModel
  /\ switch = NoSwitch

\* ShellSession.__init__ with an empty history store
SessionStart ==
  /\ history = <<>>
  /\ db = <<>>
  /\ SessionIdle

(***************************************************************************)
(* The analyzer applied to one command string: a verdict is constructed      *)
(* fresh per call and depends on the arguments only.                       *)
(***************************************************************************)
InitAnalyzer ==
  /\ a_command \in Commands
  /\ a_context \in Contexts
  /\ verdict = NoVerdict
  /\ apc = "call"
  /\ always_confirm = TRUE
  /\ safe_mode = TRUE
  /\ SessionStart

Analyze ==
  /\ apc = "call"
  /\ verdict' = analyze_command(a_command, a_context)
  /\ apc' = "returned"
  /\ UNCHANGED <<a_command, a_context, cvars, svars, hvars, pvars, mvars>>

NextAnalyzer == Analyze

SpecAnalyzer == InitAnalyzer /\ [][NextAnalyzer]_vars

(***************************************************************************)
(* The interactive session: start_interactive_shell reads one input at a   *)
(* time and hands it to process_user_input.  An action runs the handler    *)
(* up to the point where it waits for the translation, for an answer to a  *)
(* confirmation prompt, or returns.                                        *)
(***************************************************************************)
Init ==
  /\ AnalyzerIdle
  /\ always_confirm \in BOOLEAN
  /\ safe_mode \in BOOLEAN
  /\ SessionStart

\* a new input: nothing is left of the previous one
Begin(u) ==
  /\ inputs' = inputs + 1
  /\ typed_input' = u
  /\ asked' = <<>>
  /\ run_calls' = 0
  /\ last_run' = NoRun
  /\ sink_failed' = FALSE
  /\ result' = NoResult
  /\ response' = NoResponse

\* process_user_input returns value: the loop reads on, unless it is False
Return(value, what) ==
  /\ ret' = value
  /\ outcome' = what
  /\ pc' = IF value = "True" THEN "prompt" ELSE "terminated"

\* an exception leaves process_user_input: start_interactive_shell reports
\* it and the session is over
Raised ==
  /\ ret' = "raised"
  /\ outcome' = "raised"
  /\ pc' = "terminated"

Route(u) ==
  IF u = <<>> THEN "empty"
  ELSE IF StartsWith(u, <<".">>) THEN "special"
  ELSE IF detect_command_type(u, ai_mode) = "natural" /\ ai_mode THEN "natural"
  ELSE "direct"

EmptyInput ==
  /\ pc = "prompt"
  /\ inputs < MaxInputs
  /\ \E typed \in UserInputs :
    /\ Route(Strip(typed)) = "empty"
    /\ Begin(Strip(typed))
    /\ Return("True", "none")
    /\ cur_command' = <<>> /\ flow' = "none" /\ cur_risk' = NoVerdict
    /\ pending' = <<>> /\ events' = <<>>
    /\ UNCHANGED <<avars, cvars, svars, pvars, mvars>>

\* _handle_special_command, for the commands of UserInputs
SpecialCommand ==
  /\ pc = "prompt"
  /\ inputs < MaxInputs
  /\ \E typed \in UserInputs :
    /\ Route(Strip(typed)) = "special"
    /\ Begin(Strip(typed))
    /\ cur_command' = <<>> /\ flow' = "special" /\ cur_risk' = NoVerdict
    /\ pending' = <<>> /\ events' = <<>>
    /\ IF Lower(Strip(typed)) \in {<<".", "e", "x", "i", "t">>, <<".", "q", "u", "i", "t">>, <<".", "q">>}
       THEN Return("False", "none") /\ UNCHANGED ai_mode
       ELSE IF Lower(Strip(typed)) = <<".", "m", "o", "d", "e">>
         THEN Return("True", "none") /\ ai_mode' = ~ai_mode
       ELSE Return("True", "none") /\ UNCHANGED ai_mode
    /\ UNCHANGED <<avars, cvars, current_directory, history, db, pvars, mvars>>

\* _handle_natural_language up to  await self.translate_command(user_input)
NaturalInput ==
  /\ pc = "prompt"
  /\ inputs < MaxInputs
  /\ \E typed \in UserInputs :
    /\ Route(Strip(typed)) = "natural"
    /\ Begin(Strip(typed))
    /\ pc' = "translate"
    /\ cur_command' = <<>> /\ flow' = "natural" /\ cur_risk' = NoVerdict
    /\ pending' = <<>> /\ events' = <<>>
    /\ ret' = "none" /\ outcome' = "none"
    /\ UNCHANGED <<avars, cvars, svars, pvars, mvars>>

\* _handle_natural_language from the translation to the first prompt
Translate ==
  /\ pc = "translate"
  /\ \E translated \in Translations :
    /\ response' = translated
    /\ IF translated.error # "" \/ Strip(translated.command) = <<>>
       THEN /\ Return("True", "no_command")
            /\ UNCHANGED <<cur_command, cur_risk, pending, events>>
       ELSE \E r \in {VerdictOf(translated.command, current_directory)} :
            \E prompts \in {NaturalPrompts(r, always_confirm)} :
               /\ cur_command' = translated.command
               /\ cur_risk' = r
               /\ events' = <<"verdict">>
               /\ pending' = prompts
               /\ pc' = IF prompts = <<>> THEN "exec" ELSE "confirm"
               /\ UNCHANGED <<ret, outcome>>
    /\ UNCHANGED <<avars, cvars, svars, pvars, mvars, inputs, typed_input, flow, asked, run_calls,
                   last_run, sink_failed, result>>

\* _handle_direct_command up to the first prompt
DirectInput ==
  /\ pc = "prompt"
  /\ inputs < MaxInputs
  /\ \E typed \in UserInputs :
    /\ Route(Strip(typed)) = "direct"
    /\ Begin(Strip(typed))
    /\ \E r \in {VerdictOf(Strip(typed), current_directory)} :
       /\ cur_command' = Strip(typed)
       /\ flow' = "direct"
       /\ cur_risk' = r
       /\ events' = <<"verdict">>
       /\ IF safe_mode /\ requires_confirmation(r)
          THEN IF DangerLevelGE(r.level, MEDIUM).raised
               THEN Raised /\ pending' = <<>>
               ELSE /\ pending' = DirectPrompts(r)
                    /\ pc' = "confirm"
                    /\ ret' = "none" /\ outcome' = "none"
          ELSE /\ pending' = <<>>
               /\ pc' = "exec"
               /\ ret' = "none" /\ outcome' = "none"
    /\ UNCHANGED <<avars, cvars, svars, pvars, mvars>>

\* the user answers the Confirm.ask the handler waits in
Answer ==
  /\ pc = "confirm"
  /\ \E accept \in BOOLEAN :
    /\ asked' = Append(asked, [text |-> Head(pending).text, default |-> Head(pending).default,
                               answer |-> accept])
    /\ events' = Append(events, "ask")
    /\ IF Declined(accept)
       THEN Return("True", "cancelled") /\ pending' = <<>>
       ELSE /\ pending' = Tail(pending)
            /\ pc' = IF Tail(pending) = <<>> THEN "exec" ELSE "confirm"
            /\ UNCHANGED <<ret, outcome>>
    /\ UNCHANGED <<avars, cvars, svars, pvars, mvars, inputs, typed_input, cur_command, flow, cur_risk,
                   run_calls, last_run, sink_failed, result, response>>

\* the rest of the handler: the safety tips (natural-language flow),
\* execute_command, display_output, return True
Execute ==
  /\ pc = "exec"
  /\ \E run \in ExecResults, sinkOk \in BOOLEAN :
    /\ \E x \in {execute_command([history |-> history, db |-> db, cwd |-> current_directory],
                                  cur_command, typed_input,
                                  IF flow = "natural" THEN "natural" ELSE "direct", run, sinkOk)} :
          /\ events' = events
                        \o (IF flow = "natural" /\ get_safety_tips(cur_command) # <<>>
                            THEN <<"tips">> ELSE <<>>)
                        \o <<"exec">>
          /\ run_calls' = run_calls + x.runs
          /\ last_run' = IF x.runs = 0 THEN Builtin ELSE run
          /\ sink_failed' = ~sinkOk
          /\ history' = x.history
          /\ db' = x.db
          /\ current_directory' = x.cwd
          /\ \E p \in {CdRefresh(cur_command, current_directory,
                                 [context |-> current_project_context,
                                  cache |-> project_cache], fs_created)} :
                /\ current_project_context' = p.context
                /\ project_cache' = p.cache
          /\ IF x.raised
             THEN Raised /\ UNCHANGED result
             ELSE /\ result' = [success |-> x.success, stdout |-> x.stdout, stderr |-> x.stderr]
                  /\ Return("True", IF x.success THEN "executed" ELSE "failed")
    /\ UNCHANGED <<avars, cvars, ai_mode, inputs, typed_input, cur_command, flow, cur_risk,
                   pending, asked, response, fs_created, mvars>>

Next ==
  \/ EmptyInput
  \/ SpecialCommand
  \/ NaturalInput
  \/ Translate
  \/ DirectInput
  \/ Answer
  \/ Execute

Spec == Init /\ [][Next]_vars

(***************************************************************************)
(* execute_command called on the session directly, one command after the   *)
(* other, as a caller of the session's interface does.  The store may hold *)
(* the entries of earlier sessions; the sink may fail.                     *)
(***************************************************************************)
\* the in-memory form of a stored entry
HistoryTuple(e) == <<e.user_input, e.translated_command, e.success>>

\* the entries an earlier session left in the store
PriorEntry(k) ==
  HistoryEntry(<<"l", "i", "s", "t", " ", "f", "i", "l", "e", "s", " ">> \o IntToChars(k), <<"l", "s", " ">> \o IntToChars(k), "natural",
               TRUE, HomeDir, 0, <<>>)
PriorStore(k) == [i \in 1..k |-> PriorEntry(i)]

\* _load_session_context: get_recent_entries(limit=10) answers newest first
LoadHistory(store) ==
  [i \in 1..(IF Len(store) < SessionLoadLimit THEN Len(store) ELSE SessionLoadLimit) |->
     HistoryTuple(store[Len(store) - i + 1])]

\* the n-th call: execute_command(HistoryCommand(n), HistoryInput(n), DIRECT)
HistoryCommand(n) == <<"e", "c", "h", "o", " ", "t", "e", "s", "t">> \o IntToChars(n)
HistoryInput(n) == <<"t", "e", "s", "t", " ", "c", "o", "m", "m", "a", "n", "d", " ">> \o IntToChars(n)
\* the entries of the store that this session recorded
SessionEntries(store) ==
  SelectSeq(store, LAMBDA e : StartsWith(e.translated_command, <<"e", "c", "h", "o", " ", "t", "e", "s", "t">>))
\* the calls whose record the sink refused
SinkFailures == calls - Len(SessionEntries(db))

InitHistory ==
  /\ AnalyzerIdle
  /\ always_confirm = TRUE
  /\ safe_mode = TRUE
  /\ SessionIdle
  /\ \E k \in {0, MaxPrior} :
       /\ db = PriorStore(k)
       /\ history = LoadHistory(PriorStore(k))

ExecuteCommandCall ==
  /\ calls < MaxCalls
  /\ \E sinkOk \in BOOLEAN :
     /\ sinkOk \/ SinkFailures < MaxSinkFailures
     /\ \E x \in {execute_command([history |-> history, db |-> db, cwd |-> current_directory],
                                  HistoryCommand(calls), HistoryInput(calls), "direct",
                                  Succeeds, sinkOk)} :
          /\ calls' = calls + 1
          /\ typed_input' = HistoryInput(calls)
          /\ cur_command' = HistoryCommand(calls)
          /\ run_calls' = x.runs
          /\ last_run' = Succeeds
          /\ sink_failed' = ~sinkOk
          /\ history' = x.history
          /\ db' = x.db
          /\ current_directory' = x.cwd
          /\ result' = [success |-> x.success, stdout |-> x.stdout, stderr |-> x.stderr]
     /\ UNCHANGED <<avars, cvars, ai_mode, pc, inputs, flow, cur_risk, pending, asked,
                    events, ret, outcome, response, pvars, model, switch>>

NextHistory == ExecuteCommandCall

SpecHistory == InitHistory /\ [][NextHistory]_vars

(***************************************************************************)
(* cd commands executed on the session, while the files of the directories *)
(* change under it.                                                        *)
(***************************************************************************)
CdCommands == {<<"c", "d", " ", "/", "e", "t", "c">>, <<"c", "d", " ", "/", "t", "m", "p">>, <<"c", "d", " ", ".", ".">>, <<"c", "d", " ", "~">>, <<"c", "d", " ", "n", "o", "w", "h", "e", "r", "e">>, <<"c", "d", " ", "/", "e", "t", "c", "/", "h", "o", "s", "t", "s">>, <<"c", "d", " ", "'", "x">>}
\* the directories in which a package.json may appear
ChangingDirs == {HomeDir, <<"/", "e", "t", "c">>}

InitCd ==
  /\ AnalyzerIdle
  /\ always_confirm = TRUE
  /\ safe_mode = TRUE
  /\ SessionStart

\* execute_command(cmd) for a cd command
CdCall ==
  /\ calls < MaxCdCalls
  /\ \E cmd \in CdCommands, sinkOk \in BOOLEAN :
     /\ \E x \in {execute_command([history |-> history, db |-> db, cwd |-> current_directory],
                                  cmd, <<>>, "direct", NoRun, sinkOk)} :
        \E p \in {CdRefresh(cmd, current_directory,
                            [context |-> current_project_context, cache |-> project_cache],
                            fs_created)} :
          /\ calls' = calls + 1
          /\ typed_input' = <<>>
          /\ cur_command' = cmd
          /\ run_calls' = x.runs
          /\ last_run' = Builtin
          /\ sink_failed' = ~sinkOk
          /\ history' = x.history
          /\ db' = x.db
          /\ current_directory' = x.cwd
          /\ current_project_context' = p.context
          /\ project_cache' = p.cache
          /\ result' = [success |-> x.success, stdout |-> x.stdout, stderr |-> x.stderr]
     /\ UNCHANGED <<avars, cvars, ai_mode, pc, inputs, flow, cur_risk, pending, asked,
                    events, ret, outcome, response, fs_created, model, switch>>

\* the environment: a package.json appears in a directory
FilesChange ==
  /\ \E d \in ChangingDirs \ fs_created : fs_created' = fs_created \cup {d}
  /\ UNCHANGED <<avars, cvars, svars, hvars, current_project_context, project_cache, mvars>>

\* _handle_special_command(".context analyze"): the session asks the
\* analyzer for the context of its current directory
ContextAnalyzeCommand == <<".", "c", "o", "n", "t", "e", "x", "t", " ", "a", "n", "a", "l", "y", "z", "e">>
ContextAnalyze ==
  /\ inputs < MaxInputs
  /\ \E x \in {analyze_directory(current_directory, project_cache, fs_created)} :
       /\ current_project_context' = x.context
       /\ project_cache' = x.cache
  /\ inputs' = inputs + 1
  /\ typed_input' = ContextAnalyzeCommand
  /\ flow' = "special"
  /\ ret' = "True"
  /\ UNCHANGED <<avars, cvars, svars, pc, cur_command, cur_risk, pending, asked, events,
                 run_calls, last_run, sink_failed, result, outcome, response, fs_created, mvars>>

NextCd ==
  \/ CdCall
  \/ FilesChange
  \/ ContextAnalyze

SpecCd == InitCd /\ [][NextCd]_vars

(***************************************************************************)
(* switch_model called on the session: the provider lists its models and   *)
(* answers the connection test.                                            *)
(***************************************************************************)
\* what list_models answers (sorted, or nothing when the request failed)
AvailableLists == {
  <<>>,
  <<<<"c", "o", "d", "e", "l", "l", "a", "m", "a", ":", "l", "a", "t", "e", "s", "t">>, <<"l", "l", "a", "m", "a", "3", ":", "8", "b">>, <<"l", "l", "a", "m", "a", "3", ":", "l", "a", "t", "e", "s", "t">>, <<"m", "i", "s", "t", "r", "a", "l">>>>,
  <<<<"l", "l", "a", "m", "a", "3", ":", "l", "a", "t", "e", "s", "t">>>>,
  <<<<"m", "i", "s", "t", "r", "a", "l">>, <<"p", "h", "i", ":", "l", "a", "t", "e", "s", "t">>>> }
ModelNames == {<<"c", "o", "d", "e", "l", "l", "a", "m", "a", ":", "l", "a", "t", "e", "s", "t">>, <<"l", "l", "a", "m", "a", "3">>, <<"l", "a", "t", "e", "s", "t">>, <<"m", "i", "s", "t", "r", "a", "l">>, <<"p", "h", "i">>, <<"n", "o", "n", "e", "x", "i", "s", "t", "e", "n", "t", ":", "m", "o", "d", "e", "l">>}

RECURSIVE BaseName(_, _)
\* model.split(":")[0], from position i on
BaseName(m, i) ==
  IF i > Len(m) \/ m[i] = ":" THEN SubSeq(m, 1, i - 1) ELSE BaseName(m, i + 1)

FuzzyMatch(m, name) ==
  \/ StartsWith(m, name \o <<":">>)
  \/ EndsWith(m, <<":">> \o name)
  \/ BaseName(m, 1) = name

RECURSIVE FirstMatch(_, _, _)
\* the for loop: the first model of the list that matches, or None (<<>>)
FirstMatch(available, name, i) ==
  IF i > Len(available) THEN <<>>
  ELSE IF FuzzyMatch(available[i], name) THEN available[i]
  ELSE FirstMatch(available, name, i + 1)

\* a switch that keeps the target when the connection test fails
switch_model_unreverted(name, available, connected, old) ==
  IF available = <<>> THEN [model |-> old, target |-> <<>>, outcome |-> "no_models"]
  ELSE IF name \notin Range(available) /\ FirstMatch(available, name, 1) = <<>>
    THEN [model |-> old, target |-> <<>>, outcome |-> "not_found"]
  ELSE [model |-> IF name \in Range(available) THEN name ELSE FirstMatch(available, name, 1),
        target |-> IF name \in Range(available) THEN name ELSE FirstMatch(available, name, 1),
        outcome |-> IF connected THEN "switched" ELSE "failed"]

\* [model, target, outcome]: the configured model when switch_model returns,
\* the model it chose, and what it reported; old is the model configured
\* before, connected the answer of test_connection
switch_model(name, available, connected, old) ==
  IF available = <<>> THEN [model |-> old, target |-> <<>>, outcome |-> "no_models"]
  ELSE IF name \notin Range(available) /\ FirstMatch(available, name, 1) = <<>>
    THEN [model |-> old, target |-> <<>>, outcome |-> "not_found"]
  ELSE IF connected
    THEN [model |-> IF name \in Range(available) THEN name ELSE FirstMatch(available, name, 1),
          target |-> IF name \in Range(available) THEN name ELSE FirstMatch(available, name, 1),
          outcome |-> "switched"]
  ELSE [model |-> old,
        target |-> IF name \in Range(available) THEN name ELSE FirstMatch(available, name, 1),
        outcome |-> "reverted"]

InitModel ==
  /\ AnalyzerIdle
  /\ always_confirm = TRUE
  /\ safe_mode = TRUE
  /\ SessionStart

SwitchModel ==
  /\ \E name \in ModelNames, available \in AvailableLists, connected \in BOOLEAN :
       \E x \in {switch_model(name, available, connected, model)} :
         /\ model' = x.model
         /\ switch' = [called |-> TRUE, name |-> name, available |-> available,
                       connected |-> connected, old |-> model, target |-> x.target,
                       outcome |-> x.outcome]
  /\ UNCHANGED <<avars, cvars, svars, hvars, pvars, calls>>

NextModel == SwitchModel

SpecModel == InitModel /\ [][NextModel]_vars

(***************************************************************************)
(* Properties.                                                             *)
(***************************************************************************)
MaxOf(S) == CHOOSE m \in S : \A x \in S : x <= m
Executed == \E i \in 1..Len(events) : events[i] = "exec"
AllAccepted == \A i \in 1..Len(asked) : asked[i].answer
\* the handler of a natural-language or direct input has run to its end
Finished == flow \in {"natural", "direct"} /\ pc \in {"prompt", "terminated"}
CriticalMatches(c) == Matching(critical_patterns, Strip(Lower(c)))
NonCritical == Strip(a_command) # <<>> /\ CriticalMatches(a_command) = <<>>

\* the levels contributed by the pattern tiers and the two passes, each
\* evaluated on its own
Contributions ==
  (IF Matching(high_patterns, Strip(Lower(a_command))) # <<>> THEN {HIGH} ELSE {})
  \cup (IF Matching(medium_patterns, Strip(Lower(a_command))) # <<>> THEN {MEDIUM} ELSE {})
  \cup (IF Matching(low_patterns, Strip(Lower(a_command))) # <<>> THEN {LOW} ELSE {})
  \cup (IF a_context.present THEN {_analyze_context(a_command, a_context).level} ELSE {})
  \cup {_analyze_structure(a_command).level}

C2_CriticalShortCircuit ==
  (apc = "returned" /\ \E i \in 1..Len(critical_patterns) :
                          Search(critical_patterns[i].pat, Strip(Lower(a_command))))
  => LET first == CHOOSE i \in 1..Len(critical_patterns) :
                    /\ Search(critical_patterns[i].pat, Strip(Lower(a_command)))
                    /\ \A j \in 1..(i - 1) :
                         ~Search(critical_patterns[j].pat, Strip(Lower(a_command)))
     IN /\ verdict.level = CRITICAL
        /\ verdict.reasons = <<critical_patterns[first].reason>>
        /\ Len(verdict.suggestions) = 2
        /\ Range(verdict.suggestions) =
             {"This command can cause irreversible system damage",
              "Consider alternatives or seek expert help"}

\* two CRITICAL patterns match, and so would the context and structure passes
C2_Witness ==
  /\ apc = "returned"
  /\ Len(CriticalMatches(a_command)) >= 2
  /\ a_context.present
  /\ _analyze_context(a_command, a_context).level = MEDIUM
  /\ _analyze_structure(a_command).reasons # <<>>
  /\ verdict.level = CRITICAL

\* C3: for one input the verdict comes first, the prompts follow it and the
\* execution follows the prompts; in the natural-language flow, and in the
\* direct flow in safe mode, a command of level LOW or higher reaches
\* execute_command only with every prompt asked for it accepted.
C3_VerdictThenPromptsThenExecution ==
  /\ \A i \in 1..Len(events) :
       events[i] \in {"ask", "exec"} => (i > 1 /\ events[1] = "verdict")
  /\ \A i \in 1..Len(events) :
       events[i] = "exec" => \A j \in (i + 1)..Len(events) : events[j] # "ask"
  /\ (pc = "exec" \/ Executed) => events[1] = "verdict"
  /\ ( /\ pc = "exec" \/ Executed
       /\ cur_risk.level >= LOW
       /\ flow = "natural" \/ (flow = "direct" /\ safe_mode) )
     => (AllAccepted /\ pending = <<>>)

\* a CRITICAL command of the natural-language flow, executed after its two
\* prompts were accepted
C3_Witness ==
  /\ flow = "natural" /\ cur_risk.level = CRITICAL
  /\ Len(asked) = 2 /\ AllAccepted
  /\ events[1] = "verdict" /\ events[Len(events)] = "exec"

\* C4: for a CRITICAL verdict, whenever confirmation is not skipped, both
\* flows ask two sequential distinct confirmations and execute the command
\* only if both are accepted; declining either one cancels.
C4_CriticalAsksTwice ==
  (Finished /\ cur_risk.level = CRITICAL /\ (flow = "natural" \/ safe_mode))
  => /\ ret = "True"
     /\ Len(asked) \in {1, 2}
     /\ Len(asked) = 2 => (asked[1].answer /\ asked[1].text # asked[2].text)
     /\ Executed <=> (Len(asked) = 2 /\ AllAccepted)
     /\ ~Executed => outcome = "cancelled"

\* C5: a command is executed without any prompt only if its verdict is SAFE
\* and always_confirm is false, or it came by the direct path and safe_mode
\* is false.
C5_NoPromptOnlyWhenAllowed ==
  (Executed /\ asked = <<>>)
  => \/ cur_risk.level = SAFE /\ ~always_confirm
     \/ flow = "direct" /\ ~safe_mode

\* C6: when the user declines a prompt the command is not executed, no
\* record is written to the persistent or the in-memory history, and the
\* handler returns True.
C6_DeclineCancels ==
  /\ []((\E i \in 1..Len(asked) : ~asked[i].answer)
          => /\ ~Executed /\ pc = "prompt" /\ run_calls = 0
             /\ ret = "True" /\ outcome = "cancelled")
  /\ [][(pc = "confirm" /\ \E i \in 1..Len(asked') : ~asked'[i].answer)
          => (history' = history /\ db' = db)]_vars

\* the second prompt of a CRITICAL command declined, after a command that
\* was executed and recorded
C6_Witness ==
  /\ Len(asked) = 2 /\ asked[1].answer /\ ~asked[2].answer
  /\ Len(db) = 1 /\ Len(history) = 1
  /\ outcome = "cancelled"

\* C7: in safe mode _handle_direct_command never raises and returns True,
\* for every risk level; it ends executed-successfully, executed-and-failed
\* or cancelled, the command being executed iff its prompts were accepted.
C7_DirectNeverRaises ==
  (Finished /\ flow = "direct" /\ safe_mode)
  => /\ ret = "True"
     /\ outcome \in {"executed", "failed", "cancelled"}
     /\ Executed <=> AllAccepted

SpecifiedDefault(fl, level) ==
  IF level >= HIGH THEN FALSE
  ELSE IF level = MEDIUM THEN fl = "natural"
  ELSE TRUE

\* C8: the default of a prompt is a function of level and flow: decline for
\* CRITICAL and HIGH, accept for LOW and SAFE, and for MEDIUM accept in the
\* natural-language flow and decline in the direct-command flow.  It holds
\* of the prompts the session asks and of the prompts each handler holds
\* for each level.
C8_PromptDefaults ==
  /\ \A i \in 1..Len(asked) : asked[i].default = SpecifiedDefault(flow, cur_risk.level)
  /\ \A i \in 1..Len(pending) : pending[i].default = SpecifiedDefault(flow, cur_risk.level)
  /\ \A level \in DangerLevel, ac \in BOOLEAN :
       LET p == NaturalPrompts(CommandRisk(level, <<>>, <<>>), ac)
       IN \A i \in 1..Len(p) : p[i].default = SpecifiedDefault("natural", level)
  /\ \A level \in DangerLevel \ {SAFE} :
       LET p == DirectPrompts(CommandRisk(level, <<>>, <<>>))
       IN \A i \in 1..Len(p) : p[i].default = SpecifiedDefault("direct", level)

\* a MEDIUM prompt of the natural-language flow, asked with default accept
C8_Witness ==
  /\ flow = "natural" /\ cur_risk.level = MEDIUM
  /\ Len(asked) = 1 /\ asked[1].default

\* the step in which execute_command runs into the timeout
TimeoutStep == pc = "exec" /\ last_run'.kind = "timeout"
TimeoutResult(r) == ~r.success /\ r.stdout = <<>> /\ Contains(r.stderr, <<"t", "i", "m", "e", "d", " ", "o", "u", "t">>)
\* the step adds one entry for the command, failed with exit code -1
OneFailedEntry ==
  /\ Len(db') = Len(db) + 1
  /\ db'[Len(db')].translated_command = cur_command
  /\ ~db'[Len(db')].success
  /\ db'[Len(db')].exit_code = -1
  /\ SubSeq(db', 1, Len(db)) = db
  /\ history' # <<>> /\ history'[Len(history')][2] = cur_command
  /\ ~history'[Len(history')][3]

\* C9 as stated: on a timeout execute_command returns (False, "", a message
\* containing 'timed out'), records exactly one entry with success False
\* and exit code -1, and runs the command once only.
C9_TimeoutRecordedOnce ==
  [][TimeoutStep => (TimeoutResult(result') /\ run_calls' = 1 /\ OneFailedEntry)]_vars

\* C9, amended: on a timeout execute_command returns (False, "", a message
\* containing 'timed out') and runs the command once only; it records
\* exactly one entry with success False and exit code -1 when the history
\* sink works, and none when add_entry raises.
C9_TimeoutRecordedOnceIfSinkWorks ==
  [][TimeoutStep =>
       /\ TimeoutResult(result') /\ run_calls' = 1 /\ ret' = "True"
       /\ IF sink_failed' THEN db' = db /\ history' = history ELSE OneFailedEntry]_vars

\* a timeout, recorded
C9_Witness ==
  /\ last_run.kind = "timeout" /\ ~sink_failed
  /\ TimeoutResult(result) /\ run_calls = 1
  /\ db # <<>> /\ db[Len(db)].exit_code = -1

\* C10: when add_entry raises, execute_command raises nothing and returns
\* what it returns with a working sink.
C10_SinkFailureHarmless ==
  [][(pc = "exec" /\ sink_failed') =>
       LET w == execute_command(
                  [history |-> history, db |-> db, cwd |-> current_directory],
                  cur_command, typed_input,
                  IF flow = "natural" THEN "natural" ELSE "direct", last_run', TRUE)
       IN /\ ret' = "True"
          /\ result' = [success |-> w.success, stdout |-> w.stdout, stderr |-> w.stderr]
          /\ current_directory' = w.cwd
          /\ run_calls' = w.runs]_vars

\* a command that ran and succeeded while the sink failed: nothing recorded
C10_Witness ==
  /\ sink_failed /\ last_run.kind = "exit"
  /\ result.success /\ ret = "True"
  /\ db = <<>>

\* the calls made, and whether the last of them was recorded
LatestCall == <<HistoryInput(calls - 1), HistoryCommand(calls - 1), TRUE>>
\* the last n entries of the store, in their in-memory form
StoredTail(n) == [i \in 1..n |-> HistoryTuple(db[Len(db) - n + i])]

PassedType == IF flow = "natural" THEN "natural" ELSE "direct"

\* C12: every call of execute_command, whichever branch it takes (built-in
\* cd, exit 0, exit non-zero, timeout, execution error), adds exactly one
\* record to the persistent history and one to the in-memory history when
\* the sink works; the record carries the command_type passed in and the
\* success flag returned to the caller.
C12_OneRecordPerCall ==
  [][pc = "exec" /\ ~sink_failed' =>
       /\ Len(db') = Len(db) + 1
       /\ SubSeq(db', 1, Len(db)) = db
       /\ db'[Len(db')].command_type = PassedType
       /\ db'[Len(db')].translated_command = cur_command
       /\ ret' # "raised"
       /\ db'[Len(db')].success = result'.success
       /\ history' = (IF Len(history) < HistoryLimit THEN history ELSE Tail(history))
                       \o <<<<db'[Len(db')].user_input, cur_command, result'.success>>>>]_vars

\* two calls recorded, of different types and with different success: a
\* translated command that exited 0, then a direct command that timed out
C12_Witness ==
  /\ Len(db) = 2 /\ Len(history) = 2
  /\ db[1].command_type = "natural" /\ db[1].success
  /\ db[2].command_type = "direct" /\ ~db[2].success
  /\ last_run.kind = "timeout"
  /\ ~sink_failed

\* the target of a cd command that tokenizes, resolved
CdTarget(cmd, cwd) ==
  LET arg == ShlexSplit(cmd).toks[2]
  IN Resolve(IF arg = <<"~">> THEN HomeDir
             ELSE IF StartsWith(arg, <<"~", "/">>) THEN HomeDir \o <<"/">> \o SubSeq(arg, 3, Len(arg))
             ELSE IF StartsWith(arg, <<"/">>) THEN arg
             ELSE cwd \o <<"/">> \o arg)
CdStep == calls' = calls + 1 /\ ~ShlexSplit(cur_command').err

\* C13: for a 'cd <target>' command, if the resolved target exists and is a
\* directory, current_directory becomes the resolved target,
\* current_project_context is recomputed for that directory and the result
\* is (True, target, ""); otherwise current_directory and
\* current_project_context are unchanged and the result is (False, "",
\* error) with 'Directory not found' in the error.
C13_CdMovesAndRecomputes ==
  [][CdStep =>
       IF CdTarget(cur_command', current_directory) \in Directories
       THEN /\ current_directory' = CdTarget(cur_command', current_directory)
            /\ current_project_context' = _detect_project_type(current_directory', fs_created)
            /\ result' = [success |-> TRUE, stdout |-> current_directory', stderr |-> <<>>]
       ELSE /\ current_directory' = current_directory
            /\ current_project_context' = current_project_context
            /\ ~result'.success /\ result'.stdout = <<>>
            /\ Contains(result'.stderr, <<"D", "i", "r", "e", "c", "t", "o", "r", "y", " ", "n", "o", "t", " ", "f", "o", "u", "n", "d">>)]_vars

\* m is name with a tag before or after it
TagMatch(m, name) ==
  \E i \in 1..Len(m) :
    m[i] = ":" /\ (SubSeq(m, 1, i - 1) = name \/ SubSeq(m, i + 1, Len(m)) = name)
NoMatch(available, name) ==
  \A i \in 1..Len(available) : available[i] # name /\ ~TagMatch(available[i], name)

\* C14: after switch_model(name) returns, the configured model is the model
\* configured before the call or a model of the provider's list that passed
\* the connection test: a name with no exact or tag-fuzzy match leaves the
\* model unchanged, an empty list leaves it unchanged, and a failed
\* connection test restores the previous model.
C14_SwitchKeepsOrTested ==
  switch.called =>
    /\ \/ model = switch.old
       \/ switch.connected /\ model \in Range(switch.available)
    /\ NoMatch(switch.available, switch.name) => model = switch.old
    /\ switch.available = <<>> => model = switch.old
    /\ ~switch.connected => model = switch.old

\* a fuzzy match was chosen, the connection test failed, the model was restored
C14_Witness ==
  /\ switch.called
  /\ switch.name = <<"l", "l", "a", "m", "a", "3">>
  /\ switch.target = <<"l", "l", "a", "m", "a", "3", ":", "8", "b">>
  /\ ~switch.connected
  /\ switch.old = <<"m", "i", "s", "t", "r", "a", "l">>
  /\ model = <<"m", "i", "s", "t", "r", "a", "l">>

Blank(c) == \A i \in 1..Len(c) : c[i] \in WS

\* C15: for every empty or whitespace-only command and every context
\* (absent, or present with any cwd and file list, a protected cwd
\* included) analyze_command returns level SAFE with no reason and no
\* suggestion: no pattern, context or structure pass has run.
C15_BlankIsSafe ==
  apc = "returned" /\ Blank(a_command) => verdict = CommandRisk(SAFE, <<>>, <<>>)

\* a whitespace-only command analyzed in a protected directory with a
\* configuration file in it
C15_Witness ==
  /\ apc = "returned"
  /\ a_command # <<>> /\ Blank(a_command)
  /\ a_context.present /\ a_context.cwd = <<"/", "e", "t", "c">>
  /\ a_context.files # <<>>
  /\ verdict.level = SAFE

\* no pattern of any tier matches, and the context and the structure pass
\* find nothing
NoFinding ==
  /\ ~Blank(a_command)
  /\ \A table \in {critical_patterns, high_patterns, medium_patterns, low_patterns} :
       \A i \in 1..Len(table) : ~Search(table[i].pat, Strip(Lower(a_command)))
  /\ a_context.present => _analyze_context(a_command, a_context).reasons = <<>>
  /\ _analyze_structure(a_command).reasons = <<>>
\* the leading token: the first word (no command of Commands quotes it)
LeadingToken == Split(a_command)[1]

\* C16: for every non-empty command for which no pattern tier, no context
\* check and no structural check produces a finding, the verdict is
\* (SAFE, ["Safe read-only operation"]) if its leading token is in the
\* safe-prefix set and (SAFE, []) otherwise: an unrecognised command is
\* never an error and never gets a non-SAFE level.
C16_NoFindingIsSafe ==
  apc = "returned" /\ NoFinding =>
    verdict = IF LeadingToken \in safe_prefixes
              THEN CommandRisk(SAFE, <<"Safe read-only operation">>, <<>>)
              ELSE CommandRisk(SAFE, <<>>, <<>>)

\* a command of the safe-prefix set without findings, analyzed with a context
C16_Witness ==
  /\ apc = "returned" /\ NoFinding
  /\ a_context.present
  /\ LeadingToken = <<"l", "s">>
  /\ verdict.reasons = <<"Safe read-only operation">>

\* C17: for each of the five DangerLevel values is_dangerous is true
\* exactly when level >= MEDIUM and requires_confirmation exactly when
\* level >= LOW; both depend on the level only, and is_dangerous implies
\* requires_confirmation.
C17_PropertiesOfLevel ==
  apc = "returned" =>
    \A l \in {SAFE, LOW, MEDIUM, HIGH, CRITICAL} :
      LET risk == CommandRisk(l, verdict.reasons, verdict.suggestions) IN
        /\ is_dangerous(risk) <=> l \in {MEDIUM, HIGH, CRITICAL}
        /\ requires_confirmation(risk) <=> l \in {LOW, MEDIUM, HIGH, CRITICAL}
        /\ is_dangerous(risk) => requires_confirmation(risk)

\* a verdict that requires confirmation and is not dangerous
C17_Witness ==
  /\ apc = "returned"
  /\ verdict.level = LOW /\ verdict.reasons # <<>>
  /\ requires_confirmation(verdict) /\ ~is_dangerous(verdict)

\* the reasons of the rules of a table that match the command, in table order
TierReasons(table) ==
  LET hit == SelectSeq(table, LAMBDA r : Search(r.pat, Strip(Lower(a_command))))
  IN [i \in 1..Len(hit) |-> hit[i].reason]
ContextReasons ==
  IF a_context.present THEN _analyze_context(a_command, a_context).reasons ELSE <<>>
StructureReasons == _analyze_structure(a_command).reasons
AllReasons ==
  TierReasons(high_patterns) \o TierReasons(medium_patterns) \o TierReasons(low_patterns)
    \o ContextReasons \o StructureReasons
Analyzed == apc = "returned" /\ ~Blank(a_command)

\* C18: when no CRITICAL pattern matches, the HIGH, MEDIUM and LOW tiers
\* are evaluated exhaustively: the reason of every matching pattern of the
\* three tiers is in the verdict's reasons, HIGH-tier reasons first, then
\* MEDIUM, then LOW (each in table order), then the context findings, then
\* the structural findings; no match suppresses a reason of a lower tier.
C18_ReasonsExhaustiveInOrder ==
  Analyzed /\ TierReasons(critical_patterns) = <<>> =>
    IF AllReasons = <<>> THEN verdict.level = SAFE ELSE verdict.reasons = AllReasons

\* a rule of each of the three tiers matches, and the context and the
\* structure pass report as well
C18_Witness ==
  /\ Analyzed /\ TierReasons(critical_patterns) = <<>>
  /\ \A t \in {high_patterns, medium_patterns, low_patterns} : TierReasons(t) # <<>>
  /\ ContextReasons # <<>> /\ StructureReasons # <<>>
  /\ verdict.reasons = AllReasons

Count(seq, w) == Cardinality({i \in 1..Len(seq) : seq[i] = w})
NoRepeat(seq) == \A i, j \in 1..Len(seq) : i # j => seq[i] # seq[j]

\* C19: in every verdict of analyze_command the suggestions hold no string
\* twice, whereas the reasons are not deduplicated: when two rules or
\* passes of the same wording both fire, the reason appears once per firing.
C19_SuggestionsUniqueReasonsNot ==
  apc = "returned" =>
    /\ NoRepeat(verdict.suggestions)
    /\ Analyzed /\ TierReasons(critical_patterns) = <<>> =>
         \A w \in Range(AllReasons) : Count(verdict.reasons, w) = Count(AllReasons, w)

\* two rules of the same wording fired: the reason is there twice, their
\* common suggestion once
C19_Witness ==
  /\ Analyzed
  /\ \E i, j \in 1..Len(verdict.reasons) : i < j /\ verdict.reasons[i] = verdict.reasons[j]
  /\ Len(TierReasons(medium_patterns)) = 2
  /\ Count(verdict.suggestions, "Verify the operation is intended and paths are correct") = 1
  /\ NoRepeat(verdict.suggestions)

\* a command that cannot be tokenized: it holds a quote that is never closed
UnbalancedQuote(c) ==
  /\ \A i \in 1..Len(c) : c[i] \notin {"\"", "\\"}
  /\ Cardinality({i \in 1..Len(c) : c[i] = "'"}) % 2 = 1
\* the findings of the structural checks that do not tokenize
NonTokenizingFindings ==
  (IF \E op \in {<<"&", "&">>, <<"|", "|">>, <<";">>} : Contains(a_command, op)
     THEN <<"Command contains multiple operations">> ELSE <<>>)
  \o (IF Search(RedirectSystem, a_command)
     THEN <<"Output redirection to system directories">> ELSE <<>>)
  \o (IF Search(RmWildcard, a_command) \/ Search(ChmodWildcard, a_command)
     THEN <<"Wildcard usage in potentially destructive command">> ELSE <<>>)
  \o (IF Search(PipeToShell, a_command)
     THEN <<"Piping output to shell execution">> ELSE <<>>)
MalformedVerdict ==
  /\ verdict.level \in {LOW, MEDIUM, HIGH, CRITICAL}
  /\ "Command has malformed syntax" \in Range(verdict.reasons)
  /\ \A w \in Range(TierReasons(high_patterns) \o TierReasons(medium_patterns)
                     \o TierReasons(low_patterns) \o ContextReasons
                     \o NonTokenizingFindings) : w \in Range(verdict.reasons)

\* C20 as stated: for every command that cannot be tokenized
\* analyze_command raises nothing and returns a verdict of level at least
\* LOW that holds the 'malformed syntax' reason; the pattern tiers, the
\* context pass and the non-tokenizing structural checks still contribute.
C20_MalformedIsReported ==
  apc = "returned" /\ UnbalancedQuote(a_command) => MalformedVerdict

\* C20 amended: the same, unless a CRITICAL pattern matches the command;
\* the verdict is then the CRITICAL one, with the reason of that pattern
\* only, and the tokenization failure is not reported.
C20_MalformedIsReportedUnlessCritical ==
  apc = "returned" /\ UnbalancedQuote(a_command) =>
    IF TierReasons(critical_patterns) = <<>>
    THEN MalformedVerdict
    ELSE /\ verdict.level = CRITICAL
         /\ verdict.reasons = <<TierReasons(critical_patterns)[1]>>

\* an untokenizable command with a pattern match, context findings and a
\* structural finding next to the malformed-syntax reason
C20_Witness ==
  /\ apc = "returned" /\ UnbalancedQuote(a_command)
  /\ TierReasons(critical_patterns) = <<>>
  /\ ContextReasons # <<>>
  /\ \E t \in {low_patterns, medium_patterns, high_patterns} : TierReasons(t) # <<>>
  /\ "Command has malformed syntax" \in Range(verdict.reasons)
  /\ Len(verdict.reasons) >= 4

\* the protected path prefixes other than the root itself
ProtectedPrefixes ==
  LET p == SelectSeq(protected_paths, LAMBDA q : q.name # "/")
  IN [i \in 1..Len(p) |-> p[i].chars]
\* the command redirects output with '>' to a path under a protected prefix
RedirectsToProtected(c) == Search(<<Lit(<<">">>), OptSpaces, Alt(ProtectedPrefixes)>>, c)

\* C21: for every protected path prefix of the rule set (/boot, /etc, /usr,
\* /var, /sys, /proc and the raw block devices) a command that redirects
\* output with '>' to a path under it gets a structural MEDIUM finding: its
\* verdict is at least MEDIUM and never (SAFE, 'Safe read-only operation'),
\* also when its leading token is a safe prefix such as echo.
C21_RedirectToProtectedIsMedium ==
  apc = "returned" /\ RedirectsToProtected(a_command) =>
    /\ verdict.level \in {MEDIUM, HIGH, CRITICAL}
    /\ verdict.level # CRITICAL =>
         "Output redirection to system directories" \in Range(verdict.reasons)

\* the cwd of the context lies under a protected prefix other than the root
UnderProtectedPrefix(cwd) ==
  \E p \in {<<"/", "b", "o", "o", "t">>, <<"/", "e", "t", "c">>, <<"/", "u", "s", "r">>, <<"/", "v", "a", "r">>, <<"/", "s", "y", "s">>, <<"/", "p", "r", "o", "c">>,
            <<"/", "d", "e", "v", "/", "s", "d", "a">>, <<"/", "d", "e", "v", "/", "s", "d", "b">>, <<"/", "d", "e", "v", "/", "n", "v", "m", "e">>, <<"/", "d", "e", "v", "/", "h", "d">>} :
    StartsWith(PathStr(cwd), p)
\* the level of the command analysed in a directory that is not protected
LevelElsewhere ==
  analyze_command(a_command, Context(<<"/", "t", "m", "p", "/", "w", "o", "r", "k">>, a_context.files)).level
NoProtectedFinding ==
  \A i \in 1..Len(protected_paths) :
    ("Operating in protected directory: " \o protected_paths[i].name)
      \notin Range(verdict.reasons)
ProtectedCwdEscalates ==
  /\ a_context.cwd # <<>> /\ UnderProtectedPrefix(a_context.cwd) =>
       /\ verdict.level \in {MEDIUM, HIGH, CRITICAL}
       /\ verdict.level >= LevelElsewhere
  /\ a_context.cwd = <<"/">> => NoProtectedFinding

\* C22 as stated: for every non-empty command and file list, a context
\* whose cwd lies under a protected prefix other than the root yields a
\* verdict of level at least MEDIUM and never lower than the command's
\* level with a non-protected cwd; a cwd equal to '/' adds no
\* protected-directory finding.
C22_ProtectedCwdIsMedium ==
  apc = "returned" /\ a_command # <<>> /\ a_context.present => ProtectedCwdEscalates

\* C22 amended: the same for every command that is neither empty nor
\* whitespace-only; a whitespace-only command is SAFE in every directory.
C22_ProtectedCwdIsMediumUnlessBlank ==
  apc = "returned" /\ a_context.present =>
    IF Blank(a_command) THEN verdict.level = SAFE ELSE ProtectedCwdEscalates

\* a command that is SAFE in /tmp/work, analysed in /var/log/
C22_Witness ==
  /\ apc = "returned" /\ ~Blank(a_command)
  /\ a_context.present /\ a_context.cwd = <<"/", "v", "a", "r", "/", "l", "o", "g", "/">>
  /\ LevelElsewhere = SAFE
  /\ verdict.level = MEDIUM
  /\ "Operating in protected directory: /var" \in Range(verdict.reasons)

\* the tokens of the command: shell tokens, or the words if it has none
TokensOf(c) == IF ShlexSplit(c).err THEN Split(c) ELSE ShlexSplit(c).toks
DeletesOrMoves(c) == \E i \in 1..Len(TokensOf(c)) : Lower(TokensOf(c)[i]) \in {<<"r", "m">>, <<"m", "v">>}
ConfigurationFile(f) ==
  \/ StartsWith(f, <<".">>)
  \/ \E x \in {<<".", "c", "o", "n", "f">>, <<".", "c", "f", "g">>, <<".", "i", "n", "i">>, <<".", "y", "a", "m", "l">>, <<".", "j", "s", "o", "n">>} : EndsWith(f, x)

\* C23: the context pass emits the LOW 'may affect configuration files'
\* finding exactly when some token of the command is rm or mv and the
\* file list holds a dotfile or a file ending in .conf, .cfg, .ini, .yaml
\* or .json; a command none of whose tokens is rm or mv never gets it.
C23_ConfigFindingIffDeletionToken ==
  apc = "returned" /\ ~Blank(a_command) /\ a_context.present
    /\ TierReasons(critical_patterns) = <<>> =>
      ("Command may affect configuration files" \in Range(verdict.reasons)
         <=> /\ DeletesOrMoves(a_command)
             /\ \E i \in 1..Len(a_context.files) : ConfigurationFile(a_context.files[i]))

\* C24: for 'sudo rm -rf /var/log/*' the verdict level is at least HIGH
\* because the sudo+recursive-deletion HIGH pattern matches, and the
\* reasons also hold the structural wildcard finding, which does not lower
\* the level.
C24_SudoRecursiveDeletionWithWildcard ==
  apc = "returned" /\ a_command = <<"s", "u", "d", "o", " ", "r", "m", " ", "-", "r", "f", " ", "/", "v", "a", "r", "/", "l", "o", "g", "/", "*">> =>
    /\ verdict.level \in {HIGH, CRITICAL}
    /\ "Recursive deletion with sudo privileges" \in Range(verdict.reasons)
    /\ "Wildcard usage in potentially destructive command" \in Range(verdict.reasons)

\* the system-destroying commands, lower-cased
SystemDestroying ==
  {<<"r", "m", " ", "-", "r", "f", " ", "/">>, <<"d", "d", " ", "i", "f", "=", "/", "d", "e", "v", "/", "z", "e", "r", "o", " ", "o", "f", "=", "/", "d", "e", "v", "/", "s", "d", "a">>, <<":", "(", ")", "{", " ", ":", "|", ":", "&", " ", "}", ";", ":">>,
   <<"c", "h", "m", "o", "d", " ", "-", "r", " ", "0", "0", "0", " ", "/">>, <<"c", "h", "m", "o", "d", " ", "-", "r", " ", "7", "7", "7", " ", "/">>}

\* C25: each system-destroying command ('rm -rf /', 'dd if=/dev/zero
\* of=/dev/sda', the fork bomb, a recursive permission change on the root
\* such as 'chmod -R 000 /' or 'chmod -R 777 /') is classified
\* is_dangerous with level HIGH or CRITICAL, whatever the working
\* directory and however the flags are capitalised.
C25_SystemDestroyingIsDangerous ==
  apc = "returned" /\ Lower(a_command) \in SystemDestroying =>
    is_dangerous(verdict) /\ verdict.level \in {HIGH, CRITICAL}

\* the command invokes sudo: the token sudo followed by a program name
InvokesSudo(c) ==
  /\ ~ShlexSplit(c).err
  /\ Len(ShlexSplit(c).toks) >= 2
  /\ ShlexSplit(c).toks[1] = <<"s", "u", "d", "o">>

\* C29: every command that invokes sudo (e.g. 'sudo apt update', 'sudo
\* mount /dev/sdb1 /mnt', 'sudo reboot') gets a verdict of at least LOW, so
\* requires_confirmation is true for it; no sudo invocation is SAFE.
C29_SudoRequiresConfirmation ==
  apc = "returned" /\ InvokesSudo(a_command) =>
    verdict.level # SAFE /\ requires_confirmation(verdict)

\* the command of the input was attempted: a confirmation was asked for
\* it, or it was handed to execute_command
Attempted == asked # <<>> \/ Executed
TipsShown == \E i \in 1..Len(events) : events[i] = "tips"

\* C26: for every attempted command whose safety tips are non-empty, in
\* the natural-language flow and in the direct flow, the tips have been
\* shown when the handler is through, whether the user accepted or
\* declined the confirmation and whatever the risk level.
C26_TipsAlwaysShown ==
  Finished /\ Attempted /\ get_safety_tips(cur_command) # <<>> => TipsShown

\* no command came out of the translation: an error, or a blank command
NoCommandCame == response.error # "" \/ Blank(response.command)

\* C27: if the translation facility returns an error, or a command that is
\* empty or whitespace-only, then for that input no confirmation is asked,
\* nothing is handed to the execution facility, no history record is
\* written, and process_user_input returns True: the session is back at
\* its prompt.
C27_NoCommandNoEffect ==
  /\ [](response # NoResponse /\ NoCommandCame
          => /\ asked = <<>> /\ pending = <<>> /\ events = <<>>
             /\ run_calls = 0 /\ last_run = NoRun
             /\ ret = "True" /\ pc = "prompt")
  /\ [][pc = "translate" /\ NoCommandCame' => (history' = history /\ db' = db)]_vars

\* the translation fails for the second input of a session whose first
\* command was executed and recorded
C27_Witness ==
  /\ response.error = "timed out" /\ response.command # <<>>
  /\ inputs = 2 /\ flow = "natural" /\ pc = "prompt" /\ ret = "True"
  /\ Len(db) = 1 /\ asked = <<>> /\ run_calls = 0

\* a '.context analyze' command has been handled
ContextAnalyzeStep == inputs' = inputs + 1 /\ typed_input' = ContextAnalyzeCommand

\* C28: '.context analyze' re-analyses the current directory: after it
\* runs, current_project_context describes the directory's contents at
\* that moment, also when the same directory was analysed earlier in the
\* session and its files changed since then.
C28_ContextAnalyzeReanalyses ==
  [][ContextAnalyzeStep =>
       current_project_context' = _detect_project_type(current_directory, fs_created)]_vars

\* a pattern of some tier, a context check or a structural check reports
FindingProduced ==
  /\ ~Blank(a_command)
  /\ TierReasons(critical_patterns) # <<>> \/ AllReasons # <<>>

\* C30: for every verdict of analyze_command, for any command and context,
\* the level is SAFE if and only if no pattern, context check or structural
\* check produced a finding, and then reasons is [] or ["Safe read-only
\* operation"] and suggestions is empty; a level of LOW or higher implies
\* that reasons and suggestions are both non-empty.
C30_SafeIffNoFinding ==
  apc = "returned" =>
    /\ verdict.level = SAFE <=> ~FindingProduced
    /\ verdict.level = SAFE =>
         /\ verdict.reasons \in {<<>>, <<"Safe read-only operation">>}
         /\ verdict.suggestions = <<>>
    /\ verdict.level \in {LOW, MEDIUM, HIGH, CRITICAL} =>
         verdict.reasons # <<>> /\ verdict.suggestions # <<>>

\* a context finding alone lifts a command without pattern match and
\* without structural finding to LOW
C30_Witness ==
  /\ apc = "returned" /\ FindingProduced
  /\ TierReasons(critical_patterns) = <<>>
  /\ \A t \in {high_patterns, medium_patterns, low_patterns} : TierReasons(t) = <<>>
  /\ StructureReasons = <<>>
  /\ verdict.level = LOW
  /\ Len(verdict.reasons) = 1 /\ Len(verdict.suggestions) = 1

====
